---- MODULE Spec2Model ----
(***************************************************************************)
(* Release matching, commit DAG and PR <-> release mapping of the          *)
(* athenian-api miners (controllers/miners/github/release.py).             *)
(*                                                                         *)
(* The Metadata Store (mdb) is read-only and fixed within a behaviour; the *)
(* Precomputed Store (pdb, the commit history per repository) and the      *)
(* shared cache are the mutable state.  Every public coroutine is one      *)
(* action; `last` records the inputs, the outcome and the observable       *)
(* effects of the call that has just returned.                             *)
(*                                                                         *)
(* Abstractions, all value-preserving for the properties stated here:      *)
(*   - a commit's node id and its sha are one identifier;                  *)
(*   - a data frame is a sequence of rows; a Python dict of lists whose    *)
(*     list order is the (unspecified) SQL row order is a function to sets;*)
(*   - instants are integers; one unit is the one-minute margin of         *)
(*     map_prs_to_releases, the 4-week probe lookaround is scaled to 2     *)
(*     units and the 365-day look-back of map_releases_to_prs to 3.        *)
(***************************************************************************)
EXTENDS Integers, Sequences, FiniteSets, TLC

VARIABLES
    mdb,      \* Metadata Store: commits, parent edges, releases, PRs, branches
    pdb,      \* Precomputed Store: repository -> stored commit history
    cache,    \* shared cache of released PRs: key -> marshalled tuple
    sdb,      \* State Store: goal template id -> row
    last      \* the call that has just returned

vars == <<mdb, pdb, cache, sdb, last>>

Range(s) == {s[i] : i \in DOMAIN s}

Repos == {"r1", "r2"}

(***************************************************************************)
(* Commits.  Rank is only the order in which the commits were created: a   *)
(* commit's parents are older commits, which keeps every graph acyclic.    *)
(***************************************************************************)
Shas == {"c1", "c2", "c3", "c4"}

Rank == [c \in Shas |-> CASE c = "c1" -> 1 [] c = "c2" -> 2 [] c = "c3" -> 3 [] OTHER -> 4]

Older(c) == {d \in Shas : Rank[d] < Rank[c]}

\* github_node_commit_parents rows of one commit, by their index column.
ParentLists(c) ==
    {<<>>} \cup {<<p>> : p \in Older(c)}
           \cup {pq \in Older(c) \X Older(c) : pq[1] # pq[2]}

Graphs ==
    {g \in [Shas -> UNION {ParentLists(c) : c \in Shas}] :
        \A c \in Shas : g[c] \in ParentLists(c)}

EmptyDag == [c \in {} |-> {}]

NoHistory == [present |-> FALSE, dag |-> EmptyDag]

(***************************************************************************)
(* _fetch_commit_history_dag                                               *)
(***************************************************************************)
RECURSIVE Closure(_, _)
\* The recursive CTE commit_history: everything reachable over parent edges.
Closure(parents, S) ==
    LET N == S \cup UNION {Range(parents[c]) : c \in S}
    IN  IF N = S THEN S ELSE Closure(parents, N)

\* The rows (parent_oid, child_oid) the crawl returns when rooted at commit_ids.
commit_history_rows(commit_ids) ==
    LET reached == Closure(mdb.parents, commit_ids \cap mdb.known)
    IN  {r \in Shas \X reached : r[1] \in Range(mdb.parents[r[2]])}

\* The loop over the rows: dag[commit] lists the git parents of the commit.
dag_from_rows(rows) ==
    [k \in {r[1] : r \in rows} \cup {r[2] : r \in rows} |->
        {r[1] : r \in {x \in rows : x[2] = k}}]

need_update_always(dag, commit_shas) == TRUE

need_update(dag, commit_shas) == \E sha \in commit_shas : sha \notin DOMAIN dag

\* The result of one fetch: the returned dag, the row left in the Precomputed
\* Store, whether the Metadata Store was queried, whether the row was written.
\* The code has no failure path of its own: error is always "none".
\* After the crawl: the fallback for initial commits, or the upsert.
\* The crawl result stored and returned as it is, an empty one included.
store_without_fallback(stored, commit_ids, dag) ==
    [dag |-> dag, stored |-> [present |-> TRUE, dag |-> dag],
     mdb_access |-> TRUE, wrote |-> TRUE, error |-> "none"]

store_crawled(stored, commit_ids, dag) ==
    IF DOMAIN dag = {}
    THEN [dag |-> [sha \in commit_ids |-> {}], stored |-> stored,
          mdb_access |-> TRUE, wrote |-> FALSE, error |-> "none"]
    ELSE [dag |-> dag, stored |-> [present |-> TRUE, dag |-> dag],
          mdb_access |-> TRUE, wrote |-> TRUE, error |-> "none"]

_fetch_commit_history_dag(stored, commit_ids) ==
    IF stored.present /\ ~need_update(stored.dag, commit_ids)
    THEN [dag |-> stored.dag, stored |-> stored, mdb_access |-> FALSE,
          wrote |-> FALSE, error |-> "none"]
    ELSE store_crawled(stored, commit_ids, dag_from_rows(commit_history_rows(commit_ids)))

(***************************************************************************)
(* Regular expressions of the release settings.  A tag or branch name is a *)
(* sequence of characters; a pattern is a sequence of tokens: a literal    *)
(* character, "ANY" for ".*", "|" for alternation, "$" for the end anchor  *)
(* and "DEFAULT" for the default branch alias "{{default}}".  re_match is  *)
(* Python's re.match: the pattern must match at the start of the name, not *)
(* necessarily all of it.                                                  *)
(***************************************************************************)
RECURSIVE match_here(_, _)
\* One alternative of a pattern against the start of s. "END" is the end of
\* the name (\Z); "$" also matches before a trailing newline.
match_here(re, s) ==
    IF re = <<>> THEN TRUE
    ELSE IF Head(re) = "END" THEN s = <<>> /\ match_here(Tail(re), s)
    ELSE IF Head(re) = "$"
         THEN (s = <<>> \/ s = <<"\n">>) /\ match_here(Tail(re), s)
    ELSE IF Head(re) = "ANY"
         THEN \E k \in 0..Len(s) :
                /\ \A i \in 1..k : s[i] # "\n"
                /\ match_here(Tail(re), SubSeq(s, k + 1, Len(s)))
    ELSE s # <<>> /\ Head(s) = Head(re) /\ match_here(Tail(re), Tail(s))

\* The alternatives of a pattern: the token "|" binds weaker than
\* concatenation, "$" included.
Alternatives(re) ==
    LET bars == {0, Len(re) + 1} \cup {i \in DOMAIN re : re[i] = "|"}
    IN  {SubSeq(re, ij[1] + 1, ij[2] - 1) :
            ij \in {x \in bars \X bars :
                       x[1] < x[2] /\ \A k \in bars : ~(x[1] < k /\ k < x[2])}}

\* re.match: some alternative matches at the start of s.
re_match(re, s) == \E alt \in Alternatives(re) : match_here(alt, s)

\* if not regexp.endswith("$"): regexp += "$"
anchored(re) == IF re # <<>> /\ re[Len(re)] = "$" THEN re ELSE Append(re, "$")

RECURSIVE replace_default(_, _)
\* regexp.replace(default_branch_alias, default_branch)
replace_default(re, name) ==
    IF re = <<>> THEN <<>>
    ELSE (IF Head(re) = "DEFAULT" THEN name ELSE <<Head(re)>>)
         \o replace_default(Tail(re), name)

(***************************************************************************)
(* load_releases                                                           *)
(***************************************************************************)
\* timedelta(weeks=4), in model time units
tag_by_branch_probe_lookaround == 2

NoTag == <<"None">>

RepoOrder == <<"r1", "r2">>

RECURSIVE SortDesc(_)
\* ORDER BY published_at DESC (commit_date DESC for commits); the order of
\* rows with equal instants is the store's own.
SortDesc(S) ==
    IF S = {} THEN <<>>
    ELSE LET m == CHOOSE r \in S : \A q \in S : q.published_at <= r.published_at
         IN  <<m>> \o SortDesc(S \ {m})

RECURSIVE Concat(_)
Concat(seqs) == IF seqs = <<>> THEN <<>> ELSE Head(seqs) \o Concat(Tail(seqs))

\* One awaited query or cached coroutine of the release matcher.
Site(kind, part, repo, branch) ==
    [kind |-> kind, part |-> part, repo |-> repo, branch |-> branch]

raise_never(raised) == FALSE

\* for r in result: if isinstance(r, Exception): raise r
raise_first_exception(raised) == raised # {}

Raised(sites) == [error |-> TRUE, rows |-> <<>>, raised |-> sites]

Returned(rows) == [error |-> FALSE, rows |-> rows, raised |-> {}]

\* The fetch_tags query.
fetch_tags(repos, time_from, time_to) ==
    SortDesc({r \in mdb.releases :
                /\ r.repo \in repos
                /\ time_from <= r.published_at /\ r.published_at <= time_to
                /\ r.commit_id})

\* releases[~releases.index.duplicated(keep="first")], index (repository, tag)
drop_duplicated(rows) ==
    LET keep == {i \in DOMAIN rows :
                    ~\E j \in 1..(i - 1) :
                        rows[j].repo = rows[i].repo /\ rows[j].tag = rows[i].tag}
        RECURSIVE pick(_)
        pick(i) == IF i > Len(rows) THEN <<>>
                   ELSE (IF i \in keep THEN <<rows[i]>> ELSE <<>>) \o pick(i + 1)
    IN  pick(1)

TagRelease(r) ==
    [id |-> r.id, repo |-> r.repo, tag |-> r.tag, sha |-> r.sha,
     published_at |-> r.published_at, author |-> r.author, matched_by |-> "tag"]

\* The releases of the repository whose tag matches its regular expression.
tag_releases_of(repo, repos, releases, settings) ==
    IF repo \in repos
    THEN SelectSeq(releases,
                   LAMBDA r : r.repo = repo /\ re_match(anchored(settings[repo].tags), r.tag))
    ELSE <<>>

return_matched(matched) == Returned([i \in DOMAIN matched |-> TagRelease(matched[i])])

match_tags(repos, releases, settings) ==
    return_matched(Concat([i \in DOMAIN RepoOrder |->
                              tag_releases_of(RepoOrder[i], repos, releases, settings)]))

_match_releases_by_tag(part, repos, time_from, time_to, settings, failing) ==
    IF Site("fetch_tags", part, "", <<>>) \in failing
    THEN Raised({Site("fetch_tags", part, "", <<>>)})
    ELSE match_tags(repos, drop_duplicated(fetch_tags(repos, time_from, time_to)), settings)

\* extract_branches: the branches of the repositories and, per repository, the
\* name of its default branch.
extract_branches(repos) == {b \in mdb.branches : b.repo \in repos}

default_branches(repo) == (CHOOSE b \in mdb.branches : b.repo = repo /\ b.is_default).name

RECURSIVE first_parent_chain(_)
first_parent_chain(c) ==
    IF mdb.parents[c] = <<>> THEN {c} ELSE {c} \cup first_parent_chain(mdb.parents[c][1])

\* The rows of the recursive query over the index = 0 parent edges, united
\* with the commit itself.
_fetch_first_parents(commit_id) ==
    IF commit_id \in mdb.known THEN first_parent_chain(commit_id) ELSE {}

\* The merge commits of the pull requests merged into the branch in the window.
merged_pr_commits(prs, repo, branch_name, time_from, time_to) ==
    {p.merge_commit : p \in {q \in prs :
        /\ q.repo = repo
        /\ q.base_ref = branch_name
        /\ time_from <= q.merged_at /\ q.merged_at <= time_to}}

\* The first parents of the branch head committed in the window.
first_parents_in(commit_id, time_from, time_to) ==
    {h \in _fetch_first_parents(commit_id) :
        time_from <= mdb.cdate[h] /\ mdb.cdate[h] < time_to}

_fetch_merge_points(repo, commit_id, branch_name, time_from, time_to) ==
    first_parents_in(commit_id, time_from, time_to)
    \cup merged_pr_commits(mdb.prs, repo, branch_name, time_from, time_to)

\* The node id of the commit with the sha.
node_id(sha) == CASE sha = "c1" -> "n1" [] sha = "c2" -> "n2" [] sha = "c3" -> "n3" [] OTHER -> "n4"

\* The committer is GitHub itself.
gh_merge(c) ==
    mdb.committer_name[c] = "GitHub" /\ mdb.committer_email[c] = "noreply@github.com"

\* The author with the claim's rule: the committer of a commit of GitHub.
committer_of_github(c) == IF gh_merge(c) THEN mdb.committer[c] ELSE mdb.author[c]

\* Series.where keeps the author of a commit of GitHub and takes the
\* committer of any other.
author_where(c) == IF gh_merge(c) THEN mdb.author[c] ELSE mdb.committer[c]

\* The pseudo-release whose id is made of the sha.
pseudo_release_by_sha(c, repo) ==
    [id |-> <<c, "_", repo>>, repo |-> repo, tag |-> NoTag, sha |-> c,
     published_at |-> mdb.cdate[c], author |-> author_where(c), matched_by |-> "branch"]

PseudoRelease(c, repo) ==
    [id |-> <<node_id(c), "_", repo>>, repo |-> repo, tag |-> NoTag, sha |-> c,
     published_at |-> mdb.cdate[c], author |-> author_where(c), matched_by |-> "branch"]

_fetch_merge_commit_releases(repo, merge_points) ==
    SortDesc({PseudoRelease(c, repo) : c \in merge_points \cap mdb.known})

\* The releases of the merge points of the matched branches of the repository.
branch_releases_of(repo, branches_matched, time_from, time_to) ==
    IF repo \in {b.repo : b \in branches_matched}
    THEN _fetch_merge_commit_releases(
             repo,
             UNION {_fetch_merge_points(repo, b.commit, b.name, time_from, time_to) :
                     b \in {x \in branches_matched : x.repo = repo}})
    ELSE <<>>

gather_branch_releases(bsite, failing, branches_matched, mp_raised, ps_raised, time_from, time_to) ==
    IF bsite \in failing THEN Raised({bsite})
    ELSE IF raise_first_exception(mp_raised) THEN Raised(mp_raised)
    ELSE IF raise_first_exception(ps_raised) THEN Raised(ps_raised)
    ELSE [error |-> FALSE, raised |-> mp_raised \cup ps_raised,
          rows |-> Concat([i \in DOMAIN RepoOrder |->
                              branch_releases_of(RepoOrder[i], branches_matched,
                                                 time_from, time_to)])]

match_branches(part, failing, branches_matched, time_from, time_to) ==
    gather_branch_releases(
        Site("extract_branches", part, "", <<>>), failing, branches_matched,
        {Site("merge_points", part, b.repo, b.name) : b \in branches_matched} \cap failing,
        {Site("merge_commit_releases", part, b.repo, <<>>) : b \in branches_matched}
            \cap failing,
        time_from, time_to)

_match_releases_by_branch(part, repos, time_from, time_to, settings, failing) ==
    match_branches(part, failing,
                   {b \in extract_branches(repos) :
                       re_match(anchored(replace_default(settings[b.repo].branches,
                                                         default_branches(b.repo))),
                                b.name)},
                   time_from, time_to)

probe_window_only(repos, time_from, time_to) ==
    {r.repo : r \in {x \in mdb.releases :
        x.repo \in repos /\ time_from <= x.published_at /\ x.published_at <= time_to}}

\* The probe: the repositories with any release row around the window.
probe(repos, time_from, time_to) ==
    {r.repo : r \in {x \in mdb.releases :
        /\ x.repo \in repos
        /\ time_from - tag_by_branch_probe_lookaround <= x.published_at
        /\ x.published_at <= time_to + tag_by_branch_probe_lookaround}}

gather_tag_or_branch(psite, failing, repos_by_tag, repos_by_branch, by_tag, by_branch, raised) ==
    IF psite \in failing
    THEN [error |-> TRUE, rows |-> <<>>, raised |-> {psite},
          probed |-> FALSE, by_tag |-> {}, by_branch |-> {}]
    ELSE [error |-> raise_first_exception(raised),
          rows |-> IF raise_first_exception(raised) THEN <<>>
                   ELSE by_tag.rows \o by_branch.rows,
          raised |-> raised,
          probed |-> TRUE, by_tag |-> repos_by_tag, by_branch |-> repos_by_branch]

match_probed(failing, repos_by_tag, repos_by_branch, by_tag, by_branch) ==
    gather_tag_or_branch(Site("probe", "tag_or_branch", "", <<>>), failing,
                         repos_by_tag, repos_by_branch, by_tag, by_branch,
                         by_tag.raised \cup by_branch.raised)

match_by_probe(repos_by_tag, repos_by_branch, time_from, time_to, settings, failing) ==
    match_probed(failing, repos_by_tag, repos_by_branch,
                 IF repos_by_tag # {}
                 THEN _match_releases_by_tag("tag_or_branch", repos_by_tag,
                                             time_from, time_to, settings, failing)
                 ELSE Returned(<<>>),
                 IF repos_by_branch # {}
                 THEN _match_releases_by_branch("tag_or_branch", repos_by_branch,
                                                time_from, time_to, settings, failing)
                 ELSE Returned(<<>>))

split_by_probe(repos, repos_by_tag, time_from, time_to, settings, failing) ==
    match_by_probe(repos_by_tag, repos \ repos_by_tag, time_from, time_to, settings, failing)

_match_releases_by_tag_or_branch(repos, time_from, time_to, settings, failing) ==
    split_by_probe(repos, probe(repos, time_from, time_to),
                   time_from, time_to, settings, failing)

\* The outcome of load_releases: error (it raised), rows (the data frame it
\* returned), raised (the constituent fetches that raised), gathered (the rows
\* of the constituents that did return) and, for the tag_or_branch
\* repositories, the strategy that handled each one.
\* The gathered results of the three matchers and the fetches that raised.
return_gathered(tag, tob, branch, raised) ==
    [error |-> raise_first_exception(raised),
     rows |-> IF raise_first_exception(raised) THEN <<>>
              ELSE tag.rows \o tob.rows \o branch.rows,
     raised |-> raised,
     gathered |-> tag.rows \o tob.rows \o branch.rows,
     probed |-> tob.probed, by_tag |-> tob.by_tag, by_branch |-> tob.by_branch]

gather_matchers(tag, tob, branch) ==
    return_gathered(tag, tob, branch, tag.raised \cup tob.raised \cup branch.raised)

load_by_match(repos_by_tag_only, repos_by_tag_or_branch, repos_by_branch, time_from, time_to, settings, failing) ==
    gather_matchers(
        IF repos_by_tag_only # {}
        THEN _match_releases_by_tag("tag", repos_by_tag_only,
                                    time_from, time_to, settings, failing)
        ELSE Returned(<<>>),
        IF repos_by_tag_or_branch # {}
        THEN _match_releases_by_tag_or_branch(repos_by_tag_or_branch,
                                              time_from, time_to, settings, failing)
        ELSE [error |-> FALSE, rows |-> <<>>, raised |-> {},
              probed |-> FALSE, by_tag |-> {}, by_branch |-> {}],
        IF repos_by_branch # {}
        THEN _match_releases_by_branch("branch", repos_by_branch,
                                       time_from, time_to, settings, failing)
        ELSE Returned(<<>>))

load_releases(repos, time_from, time_to, settings, failing) ==
    load_by_match({r \in repos : settings[r].match = "tag"},
                  {r \in repos : settings[r].match = "tag_or_branch"},
                  {r \in repos : settings[r].match = "branch"},
                  time_from, time_to, settings, failing)

(***************************************************************************)
(* map_prs_to_releases                                                     *)
(***************************************************************************)
\* timedelta(minutes=1), in model time units
earliest_merge_margin == 1

Min(S) == CHOOSE x \in S : \A y \in S : x <= y

Max(S) == CHOOSE x \in S : \A y \in S : y <= x

\* The matched_by of the first row of every repository that has rows.
_extract_matched_bys_from_releases(rows) ==
    [repo \in {rows[i].repo : i \in DOMAIN rows} |->
        rows[Min({i \in DOMAIN rows : rows[i].repo = repo})].matched_by]

\* Match(matched_bys.get(repo, setting.match)) for every setting.
consistent_release_settings(release_settings, matched_bys) ==
    [k \in DOMAIN release_settings |->
        [match |-> IF k \in DOMAIN matched_bys THEN matched_bys[k]
                   ELSE release_settings[k].match,
         tags |-> release_settings[k].tags,
         branches |-> release_settings[k].branches]]

\* The strategy a load applied to a repository.
applied_match(loaded, settings, repo) ==
    IF settings[repo].match = "tag_or_branch"
    THEN (IF repo \in loaded.by_tag THEN "tag" ELSE "branch")
    ELSE settings[repo].match

\* The release frame after a single load.
single_load(repos, release_settings, loaded) ==
    [releases |-> loaded.rows, two_loads |-> FALSE,
     new_match |-> [r \in repos |-> applied_match(loaded, release_settings, r)],
     old_match |-> [r \in repos |-> applied_match(loaded, release_settings, r)]]

\* pd.concat([releases_new, releases_old]) and what each load applied.
concat_loads(repos, release_settings, consistent, releases_new, releases_old) ==
    [releases |-> releases_new.rows \o releases_old.rows, two_loads |-> TRUE,
     new_match |-> [r \in repos |-> applied_match(releases_new, release_settings, r)],
     old_match |-> [r \in repos |-> applied_match(releases_old, consistent, r)]]

\* The old load, under the consistent settings.
load_old(repos, earliest_merge, time_from, release_settings, consistent, releases_new) ==
    concat_loads(repos, release_settings, consistent, releases_new,
                 load_releases(repos, earliest_merge, time_from, consistent, {}))

\* The settings of the old load follow the rows of the new load.
load_after_new(repos, earliest_merge, time_from, release_settings, releases_new) ==
    load_old(repos, earliest_merge, time_from, release_settings,
             consistent_release_settings(
                 release_settings, _extract_matched_bys_from_releases(releases_new.rows)),
             releases_new)

\* The release frame of the call and, when two loads were made, what each
\* load applied to each repository.
load_both(repos, earliest_merge, time_from, time_to, release_settings) ==
    IF earliest_merge >= time_from
    THEN single_load(repos, release_settings,
                     load_releases(repos, earliest_merge, time_to, release_settings, {}))
    ELSE load_after_new(repos, earliest_merge, time_from, release_settings,
                        load_releases(repos, time_from, time_to, release_settings, {}))

\* gen_cache_key("release_github|6|%s|%s", pr_id, release_settings[repo])
_gen_released_pr_cache_key(pr_id, repo, release_settings) == <<pr_id, release_settings[repo]>>

\* The records read back from the cache; their index is the cache key.
_load_pr_releases_from_cache(prs, matched_bys, release_settings, store) ==
    LET key(p) == _gen_released_pr_cache_key(p.id, p.repo, release_settings)
        hit(p) == /\ key(p) \in DOMAIN store
                  /\ (store[key(p)].repo \in DOMAIN matched_bys =>
                        store[key(p)].matched_by = matched_bys[store[key(p)].repo])
    IN  {[index |-> key(p), published_at |-> store[key(p)].published_at,
          author |-> store[key(p)].author, url |-> store[key(p)].url,
          repo |-> store[key(p)].repo, matched_by |-> store[key(p)].matched_by] :
            p \in {q \in prs : hit(q)}}

_cache_pr_releases(rows, release_settings, store) ==
    LET key(r) == _gen_released_pr_cache_key(r.index[1], r.repo, release_settings)
        keys == {key(r) : r \in rows}
    IN  [k \in DOMAIN store \cup keys |->
            IF k \in keys
            THEN LET r == CHOOSE x \in rows : key(x) = k
                 IN  [published_at |-> r.published_at, author |-> r.author,
                      url |-> r.url, repo |-> r.repo, matched_by |-> r.matched_by]
            ELSE store[k]]

append_in_place(frame, other) == frame \cup other

\* pr_releases.append(...) as a statement: DataFrame.append returns a new
\* frame and leaves pr_releases as it was.
append_discarded(frame, other) == frame

RECURSIVE Subtree(_, _)
\* The commits of a history reachable from the commits S.
Subtree(history, S) ==
    LET N == S \cup UNION {history[c].parents : c \in S \cap DOMAIN history}
    IN  IF N = S THEN S ELSE Subtree(history, N)

\* update_history (release_accelerated): the release owns every commit of the
\* subtree of its sha, less what earlier releases own. The releases arrive
\* newest first, so an earlier release takes its subtree from the later ones
\* and a commit ends with the earliest release that contains it; the outcome
\* does not depend on release_hashes.
update_history(history, rel_sha, rel_index, release_hashes) ==
    [c \in DOMAIN history |->
        IF c \in Subtree(history, {rel_sha})
        THEN [history[c] EXCEPT !.release = rel_index] ELSE history[c]]

RECURSIVE apply_releases(_, _, _)
\* The loop over the release rows of one repository, in frame order.
apply_releases(history, releases, indexes) ==
    IF indexes = {} THEN history
    ELSE apply_releases(
             update_history(history, releases[Min(indexes)].sha, Min(indexes),
                            {releases[j].sha : j \in indexes}),
             releases, indexes \ {Min(indexes)})

\* The history of a fetched DAG with every commit marked by the index of its
\* release (-1: none); error: `assert rel_sha in history` failed.
mark_history(releases, indexes, fetched) ==
    IF \A i \in indexes : releases[i].sha \in DOMAIN fetched.dag
    THEN [error |-> FALSE, stored |-> fetched.stored,
          history |-> apply_releases(
                          [k \in DOMAIN fetched.dag |->
                              [release |-> -1, parents |-> fetched.dag[k]]],
                          releases, indexes)]
    ELSE [error |-> TRUE, stored |-> fetched.stored, history |-> <<>>]

\* fetch_release_history of one repository, with the Precomputed Store row
\* that the DAG fetch leaves behind.
fetch_release_history(repo, releases, stored) ==
    mark_history(releases, {i \in DOMAIN releases : releases[i].repo = repo},
                 _fetch_commit_history_dag(
                     stored, {releases[i].sha :
                                 i \in {j \in DOMAIN releases : releases[j].repo = repo}}))

_fetch_release_histories(releases, precomputed) ==
    [repo \in {releases[i].repo : i \in DOMAIN releases} |->
        fetch_release_history(repo, releases, precomputed[repo])]

no_clamp(published_at, merged_at) == published_at

\* np.maximum(released_prs.published_at, prs.merged_at)
clamp(published_at, merged_at) ==
    IF published_at >= merged_at THEN published_at ELSE merged_at

\* The rows of the pull requests whose merge commit carries a release mark.
released_prs(prs, releases, histories, precomputed) ==
    LET released(p) == /\ p.repo \in DOMAIN histories
                       /\ p.merge_commit \in DOMAIN histories[p.repo].history
                       /\ histories[p.repo].history[p.merge_commit].release >= 0
        release(p) == releases[histories[p.repo].history[p.merge_commit].release]
        error == \E repo \in DOMAIN histories : histories[repo].error
    IN  [error |-> error,
         rows |-> IF error THEN {}
                  ELSE {[index |-> <<p.id>>,
                         published_at |-> clamp(release(p).published_at, p.merged_at),
                         author |-> release(p).author, url |-> release(p).id,
                         repo |-> p.repo, matched_by |-> release(p).matched_by] :
                            p \in {q \in prs : released(q)}},
         precomputed |-> [repo \in DOMAIN precomputed |->
                            IF repo \in DOMAIN histories THEN histories[repo].stored
                            ELSE precomputed[repo]]]

_map_prs_to_releases(prs, releases, precomputed) ==
    released_prs(prs, releases, _fetch_release_histories(releases, precomputed),
                 precomputed)

\* return pr_releases.append(missed_releases), after _cache_pr_releases.
return_releases(pr_releases, missed_releases, loaded, release_settings, store, use_cache) ==
    [error |-> missed_releases.error,
     rows |-> IF missed_releases.error THEN {} ELSE pr_releases \cup missed_releases.rows,
     precomputed |-> missed_releases.precomputed,
     store |-> IF use_cache /\ ~missed_releases.error
               THEN _cache_pr_releases(missed_releases.rows, release_settings, store)
               ELSE store,
     releases |-> loaded.releases, two_loads |-> loaded.two_loads,
     new_match |-> loaded.new_match, old_match |-> loaded.old_match]

\* The pull requests that pr_releases does not hold are mapped.
map_missed(prs, pr_releases, loaded, release_settings, pdb0, store, use_cache) ==
    return_releases(
        pr_releases,
        _map_prs_to_releases({p \in prs : <<p.id>> \notin {r.index : r \in pr_releases}},
                             loaded.releases, pdb0),
        loaded, release_settings, store, use_cache)

\* The cache is read when a client is given.
map_loaded(prs, loaded, release_settings, pdb0, store, use_cache) ==
    map_missed(
        prs,
        append_discarded(
            {}, IF use_cache
                THEN _load_pr_releases_from_cache(
                         prs, _extract_matched_bys_from_releases(loaded.releases),
                         release_settings, store)
                ELSE {}),
        loaded, release_settings, pdb0, store, use_cache)

\* The outcome of map_prs_to_releases: error (it raised), rows (the returned
\* frame), the two stores after the call, and the release frame it used.
map_prs_to_releases(prs, time_from, time_to, release_settings, pdb0, store, use_cache) ==
    IF prs = {}
    THEN [error |-> FALSE, rows |-> {}, precomputed |-> pdb0, store |-> store,
          releases |-> <<>>, two_loads |-> FALSE,
          new_match |-> <<>>, old_match |-> <<>>]
    ELSE map_loaded(prs,
                    load_both({p.repo : p \in prs},
                              Min({p.merged_at : p \in prs}) - earliest_merge_margin,
                              time_from, time_to, release_settings),
                    release_settings, pdb0, store, use_cache)

(***************************************************************************)
(* map_releases_to_prs                                                     *)
(***************************************************************************)
\* timedelta(days=365), in model time units
old_from_lookbehind == 3

\* hash_to_release: the last row of the frame with that sha.
hash_to_release(releases, x) == Max({i \in DOMAIN releases : releases[i].sha = x})

\* The walk stops at a commit whose release was published before the boundary.
is_boundary(releases, time_boundary, x) ==
    /\ \E i \in DOMAIN releases : releases[i].sha = x
    /\ releases[hash_to_release(releases, x)].published_at < time_boundary

RECURSIVE walk_new_releases(_, _, _, _)
\* The commits visited from the new releases.
walk_new_releases(dag, releases, time_boundary, visited) ==
    LET N == visited \cup UNION {dag[x] : x \in {y \in visited \cap DOMAIN dag :
                                                  ~is_boundary(releases, time_boundary, y)}}
    IN  IF N = visited THEN visited
        ELSE walk_new_releases(dag, releases, time_boundary, N)

RECURSIVE walk_ignored(_, _)
\* The full history of the boundary releases.
walk_ignored(dag, ignored) ==
    LET N == ignored \cup UNION {dag[x] : x \in ignored \cap DOMAIN dag}
    IN  IF N = ignored THEN ignored ELSE walk_ignored(dag, N)

\* The DAG without the ignored commits; error: a dag[x] lookup raised KeyError.
drop_ignored(fetched, visited, boundary_releases, ignored_commits) ==
    [error |-> \/ \E x \in visited \ boundary_releases : x \notin DOMAIN fetched.dag
               \/ \E x \in ignored_commits : x \notin DOMAIN fetched.dag,
     dag |-> [c \in DOMAIN fetched.dag \ ignored_commits |-> fetched.dag[c]],
     stored |-> fetched.stored]

\* The boundary releases are the visited commits at which the walk stopped.
ignore_boundary(releases, time_boundary, fetched, visited) ==
    drop_ignored(fetched, visited,
                 {x \in visited : is_boundary(releases, time_boundary, x)},
                 walk_ignored(fetched.dag,
                              {x \in visited : is_boundary(releases, time_boundary, x)}))

\* The walks over the DAG fetched for the new releases.
released_commits(releases, time_boundary, new_shas, fetched) ==
    ignore_boundary(releases, time_boundary, fetched,
                    walk_new_releases(fetched.dag, releases, time_boundary, new_shas))

\* The releases of one repository: the commits left in the DAG and the
\* Precomputed Store row left behind.
_extract_released_commits(releases, time_boundary, stored) ==
    released_commits(
        releases, time_boundary,
        {releases[i].sha : i \in {j \in DOMAIN releases :
                                     releases[j].published_at >= time_boundary}},
        _fetch_commit_history_dag(
            stored, {releases[i].sha : i \in {j \in DOMAIN releases :
                                                 releases[j].published_at >= time_boundary}}))

\* The query of _find_old_released_prs over the observed commits.
select_old_prs(repo, time_boundary, extracted) ==
    [error |-> extracted.error,
     stored |-> extracted.stored,
     prs |-> {p \in mdb.prs : /\ p.merged_at < time_boundary
                              /\ p.repo = repo
                              /\ p.merge_commit \in DOMAIN extracted.dag
                              /\ ~p.hidden}]

_find_old_released_prs(releases, time_boundary, stored) ==
    select_old_prs(releases[1].repo, time_boundary,
                   _extract_released_commits(releases, time_boundary, stored))

repo_releases(rows, repo) == SelectSeq(rows, LAMBDA r : r.repo = repo)

\* asyncio.gather over the repositories; the first exception is raised.
gather_old_prs(found, precomputed, releases) ==
    [error |-> \E repo \in DOMAIN found : found[repo].error,
     prs |-> IF \E repo \in DOMAIN found : found[repo].error THEN {}
             ELSE UNION {found[repo].prs : repo \in DOMAIN found},
     precomputed |-> [repo \in DOMAIN precomputed |->
                        IF repo \in DOMAIN found THEN found[repo].stored
                        ELSE precomputed[repo]],
     releases |-> releases]

\* One _find_old_released_prs per repository of the frame.
find_in_releases(releases, time_from, precomputed) ==
    gather_old_prs([repo \in {releases[i].repo : i \in DOMAIN releases} |->
                       _find_old_released_prs(repo_releases(releases, repo), time_from,
                                              precomputed[repo])],
                   precomputed, releases)

\* The outcome of map_releases_to_prs with no authors and no mergers given:
\* error (it raised), prs (the returned pull requests), the Precomputed Store
\* after the call and the release frame it loaded.
map_releases_to_prs(repos, time_from, time_to, release_settings, precomputed) ==
    find_in_releases(
        load_releases(repos, time_from - old_from_lookbehind, time_to,
                      release_settings, {}).rows,
        time_from, precomputed)

(***************************************************************************)
(* mine_releases                                                           *)
(***************************************************************************)
RECURSIVE traverse_popped(_, _, _, _)
\* The commits that the walk of _traverse_commits pops.
traverse_popped(dag, root, stops, popped) ==
    LET N == popped \cup UNION {dag[x] : x \in {y \in popped \cap DOMAIN dag :
                                                  ~(y \in stops /\ y # root)}}
    IN  IF N = popped THEN popped ELSE traverse_popped(dag, root, stops, N)

\* visited, boundaries and leaves among the popped commits.
traverse_sets(dag, root, stops, popped) ==
    [visited |-> {x \in popped \cap DOMAIN dag : ~(x \in stops /\ x # root)},
     boundaries |-> {x \in popped : x \in stops /\ x # root},
     leaves |-> {x \in popped \ DOMAIN dag : ~(x \in stops /\ x # root)}]

_traverse_commits(dag, root, stops) ==
    traverse_sets(dag, root, stops, traverse_popped(dag, root, stops, {root}))

RECURSIVE find_owned_commits(_, _, _)
RECURSIVE subtract_boundaries(_, _, _)
\* accessible -= find_owned_commits(b) for every boundary b.
subtract_boundaries(dag, stops, traversed) ==
    traversed.visited \ UNION {find_owned_commits(dag, stops, b) :
                                  b \in traversed.boundaries}

find_owned_commits(dag, stops, sha) ==
    subtract_boundaries(dag, stops, _traverse_commits(dag, sha, stops))

\* The frame of _mine_monorepo_releases, one row per new release; of its
\* columns: url, published, publisher and the included commits, whose
\* number is the column "commits".
mined_releases(new_releases, extracted) ==
    [error |-> extracted.error,
     stored |-> extracted.stored,
     data |-> IF extracted.error THEN <<>>
              ELSE [i \in DOMAIN new_releases |->
                       [url |-> new_releases[i].id,
                        published |-> new_releases[i].published_at,
                        publisher |-> new_releases[i].author,
                        included_commits |->
                            find_owned_commits(
                                extracted.dag,
                                {new_releases[j].sha : j \in DOMAIN new_releases},
                                new_releases[i].sha)]]]

_mine_monorepo_releases(releases, time_boundary, stored) ==
    mined_releases(SelectSeq(releases, LAMBDA r : r.published_at >= time_boundary),
                   _extract_released_commits(releases, time_boundary, stored))

RECURSIVE mark_heads(_, _, _, _)
\* The heads from position i on, in input order; each labels the commits
\* reachable from it with its 0-based index.
mark_heads(parents, heads, i, marks) ==
    IF i > Len(heads) THEN marks
    ELSE mark_heads(parents, heads, i + 1,
                    [c \in DOMAIN marks \cup Closure(parents, {heads[i]}) |->
                        IF c \in Closure(parents, {heads[i]}) THEN i - 1 ELSE marks[c]])

\* mark_dag_access (release_accelerated), on the parents of the commits in
\* place of the hashes, vertexes and edges arrays. The labels of the commits
\* that some head reaches; on the graph and the heads of
\* test_mark_dag_access_smoke they are the labels that test expects.
mark_dag_access(parents, heads) ==
    mark_heads(parents, heads, 1, [c \in {} |-> 0])

(***************************************************************************)
(* mine_contributors                                                       *)
(***************************************************************************)
\* A NULL timestamp.
Null == -1

between(x, time_from, time_to) == x # Null /\ time_from <= x /\ x <= time_to

\* select col, count(col) ... group by col.
group_count(rows, col) ==
    [u \in {r[col] : r \in rows} |-> Cardinality({r \in rows : r[col] = u})]

fetch_prs(db, repos, time_from, time_to) ==
    group_count({q \in db.prs :
                    /\ q.repo \in repos
                    /\ ~q.hidden
                    /\ \/ between(q.created_at, time_from, time_to)
                       \/ (q.created_at < time_to /\ q.closed_at = Null)
                       \/ between(q.closed_at, time_from, time_to)
                       \/ between(q.updated_at, time_from, time_to)},
                "user_login")

fetch_comments(db, repos, time_from, time_to) ==
    group_count({r \in db.comments : r.repo \in repos /\ between(r.created_at, time_from, time_to)},
                "user_login")

\* The PushCommit rows of the repositories committed in the window.
push_commits(db, repos, time_from, time_to) ==
    {[sha |-> c, author_login |-> db.author[c], committer_login |-> db.committer[c]] :
        c \in {x \in db.known : /\ db.commit_repo[x] \in repos
                                /\ between(db.cdate[x], time_from, time_to)}}

fetch_commit_authors(db, repos, time_from, time_to) ==
    group_count(push_commits(db, repos, time_from, time_to), "author_login")

fetch_commit_committers(db, repos, time_from, time_to) ==
    group_count(push_commits(db, repos, time_from, time_to), "committer_login")

fetch_reviews(db, repos, time_from, time_to) ==
    group_count({r \in db.reviews : r.repo \in repos /\ between(r.submitted_at, time_from, time_to)},
                "user_login")

fetch_releases(db, repos, time_from, time_to) ==
    group_count({r \in db.releases : r.repo \in repos /\ between(r.published_at, time_from, time_to)},
                "author")

StatKeys == {"prs", "commenter", "commit_author", "commit_committer", "reviewer", "releaser"}

\* stats[login]: the counts of the roles in which the login was seen.
stats_of(data, login) ==
    [k \in {x \in StatKeys : login \in DOMAIN data[x]} |-> data[k][login]]

\* The details of the known users among the logins seen, with their stats
\* when asked for.
contribs(db, with_stats, data) ==
    {IF with_stats
     THEN [login |-> u.login, name |-> u.name, stats |-> stats_of(data, u.login)]
     ELSE [login |-> u.login, name |-> u.name] :
        u \in {x \in db.users : \E k \in StatKeys : x.login \in DOMAIN data[k]}}

_mine_contributors(repos, time_from, time_to, db, with_stats) ==
    contribs(db, with_stats,
             [prs |-> fetch_prs(db, repos, time_from, time_to),
              commenter |-> fetch_comments(db, repos, time_from, time_to),
              commit_author |-> fetch_commit_authors(db, repos, time_from, time_to),
              commit_committer |-> fetch_commit_committers(db, repos, time_from, time_to),
              reviewer |-> fetch_reviews(db, repos, time_from, time_to),
              releaser |-> fetch_releases(db, repos, time_from, time_to)])

(***************************************************************************)
(* The cached miners                                                       *)
(***************************************************************************)
\* The index of the frame that load_releases returns: the column asked for,
\* or the row positions from 0. The labels go with their kind: a position
\* never equals an id.
frame_index(releases, index) ==
    [kind |-> index,
     labels |-> IF index = "id" THEN {releases[i].id : i \in DOMAIN releases}
                ELSE {<<i - 1>> : i \in DOMAIN releases}]

\* key=lambda repos, time_from, time_to, **_: (",".join(repos), ...)
mine_contributors_key(repos, time_from, time_to) ==
    [scope |-> "_mine_contributors", fingerprint |-> <<repos, time_from, time_to>>]

\* key=lambda releases, **_: (sorted(releases.index),)
mine_monorepo_releases_key(releases, index) ==
    [scope |-> "_mine_monorepo_releases", fingerprint |-> <<frame_index(releases, index)>>]

\* The cached decorator: the value stored under the key when there is one,
\* otherwise the value of the call, which is then stored unless it raised.
cached(store, key, call) ==
    IF key \in DOMAIN store
    THEN [hit |-> TRUE, error |-> FALSE, value |-> store[key], store |-> store]
    ELSE [hit |-> FALSE, error |-> call.error, value |-> call.value,
          store |-> IF call.error THEN store
                    ELSE [k \in DOMAIN store \cup {key} |->
                             IF k = key THEN call.value ELSE store[k]]]

(***************************************************************************)
(* goal_controller: the goal template endpoints                            *)
(***************************************************************************)
\* A response: raised names the exception ("none": the response was sent),
\* db is the State Store after the call.
web_response(body, db) == [raised |-> "none", detail |-> <<>>, body |-> body, db |-> db]

raise_error(kind, detail, db) == [raised |-> kind, detail |-> detail, body |-> <<>>, db |-> db]

\* get_goal_template_from_db (dbaccess) raises when no row has the id.
GoalTemplateNotFoundError(id, db) == raise_error("GoalTemplateNotFoundError", <<id>>, db)

\* get_user_account_status_from_request raises a ResponseError for a user
\* who is not a member of the account.
user_in_account(request, account) == account \in request.accounts

denied_as_forbidden(id, db) == raise_error("ResponseError", <<"forbidden">>, db)

\* except ResponseError: raise GoalTemplateNotFoundError(id)
denied(id, db) == GoalTemplateNotFoundError(id, db)

\* GoalTemplate(id=..., name=..., metric=..., repositories=...): the
\* constructor of the web model takes id, name and metric only.
_goal_template_from_row(row, db) ==
    raise_error("TypeError", <<"repositories">>, db)

get_goal_template(request, id, db) ==
    IF id \notin DOMAIN db THEN GoalTemplateNotFoundError(id, db)
    ELSE IF ~user_in_account(request, db[id].account_id) THEN denied(id, db)
    ELSE _goal_template_from_row(db[id], db)

delete_goal_template(request, id, db) ==
    IF id \notin DOMAIN db THEN GoalTemplateNotFoundError(id, db)
    ELSE IF ~user_in_account(request, db[id].account_id) THEN denied(id, db)
    ELSE web_response(<<>>, [k \in DOMAIN db \ {id} |-> db[k]])

\* The repository names of a request resolve when the account has them.
parse_request_repositories(repo_names, db) ==
    IF repo_names = <<"None">> \/ Range(repo_names) \subseteq Repos
    THEN [error |-> FALSE, repositories |-> repo_names]
    ELSE [error |-> TRUE, repositories |-> <<>>]

update_goal_template(request, id, body, db) ==
    IF id \notin DOMAIN db THEN GoalTemplateNotFoundError(id, db)
    ELSE IF ~user_in_account(request, db[id].account_id) THEN denied(id, db)
    ELSE IF parse_request_repositories(body.repositories, db).error
    THEN raise_error("ResponseError", <<"InvalidRequestError", ".repositories">>, db)
    ELSE web_response(<<>>, [db EXCEPT ![id] = [account_id |-> db[id].account_id,
                                               name |-> body.name, metric |-> body.metric,
                                               repositories |-> body.repositories]])

(***************************************************************************)
(* pull_request_metrics: the time calculators. A sample is <<>> (None) or  *)
(* <<seconds>>; facts is one row of the facts frame.                       *)
(***************************************************************************)
\* The sample end - start when the end exists and lies in [min_time, max_time).
sample_at(end, start, min_time, max_time) ==
    IF end # Null /\ min_time <= end /\ end < max_time THEN <<end - start>> ELSE <<>>

\* The work in progress that ends with the last commit whenever there is one.
wip_until_last_commit(facts, min_time, max_time) ==
    sample_at(IF facts.last_commit # Null THEN facts.last_commit
              ELSE IF facts.last_review # Null THEN facts.first_review_request
              ELSE facts.closed,
              facts.work_began, min_time, max_time)

WorkInProgressTimeCalculator(facts, min_time, max_time) ==
    sample_at(IF facts.last_review # Null THEN facts.first_review_request
              ELSE IF facts.last_commit # Null THEN facts.last_commit
              ELSE facts.closed,
              facts.work_began, min_time, max_time)

ReviewTimeCalculator(facts, min_time, max_time, allow_unclosed) ==
    IF (allow_unclosed \/ facts.closed # Null) /\ facts.first_review_request # Null
    THEN sample_at(IF facts.approved # Null THEN facts.approved ELSE facts.last_review,
                   facts.first_review_request, min_time, max_time)
    ELSE <<>>

MergingTimeCalculator(facts, min_time, max_time) ==
    IF facts.approved # Null
    THEN sample_at(facts.closed, facts.approved, min_time, max_time)
    ELSE IF facts.last_review # Null
    THEN sample_at(facts.closed, facts.last_review, min_time, max_time)
    ELSE IF facts.last_commit # Null
    THEN sample_at(facts.closed, facts.last_commit, min_time, max_time)
    ELSE <<>>

ReleaseTimeCalculator(facts, min_time, max_time) ==
    IF facts.merged # Null
    THEN sample_at(facts.released, facts.merged, min_time, max_time)
    ELSE <<>>

LeadTimeCalculator(facts, min_time, max_time) ==
    sample_at(facts.released, facts.work_began, min_time, max_time)

WaitFirstReviewTimeCalculator(facts, min_time, max_time) ==
    IF facts.first_review_request # Null
    THEN sample_at(facts.first_comment_on_first_review, facts.first_review_request,
                   min_time, max_time)
    ELSE <<>>

(***************************************************************************)
(* metric_calculator: what a calculator returns for one bin and one group. *)
(* samples is the sequence of the samples of the pull requests; a value of *)
(* a Metric is <<>> (None) or <<v>>.                                       *)
(***************************************************************************)
Metric(exists, value, confidence_min, confidence_max) ==
    [exists |-> exists, value |-> value, confidence_min |-> confidence_min,
     confidence_max |-> confidence_max]

\* The samples of the pull requests of the group; the others are masked.
group_samples(samples, group) ==
    [i \in DOMAIN samples |-> IF group[i] THEN samples[i] ELSE <<>>]

RECURSIVE sum_samples(_)
sum_samples(samples) ==
    IF samples = <<>> THEN 0
    ELSE (IF Head(samples) = <<>> THEN 0 ELSE Head(samples)[1]) + sum_samples(Tail(samples))

count_samples(samples) == Cardinality({i \in DOMAIN samples : samples[i] # <<>>})

\* The arithmetic mean over the samples that are not None.
AverageMetricCalculator_value(samples) ==
    IF count_samples(samples) = 0 THEN Metric(FALSE, <<>>, <<>>, <<>>)
    ELSE Metric(TRUE, <<sum_samples(samples) \div count_samples(samples)>>,
                <<sum_samples(samples) \div count_samples(samples)>>,
                <<sum_samples(samples) \div count_samples(samples)>>)

\* The sum over the samples that are not None.
SumMetricCalculator_value(samples) ==
    IF count_samples(samples) = 0 THEN Metric(FALSE, <<>>, <<>>, <<>>)
    ELSE Metric(TRUE, <<sum_samples(samples)>>, <<>>, <<>>)

(***************************************************************************)
(* pull_request_metrics: the cycle time, the counters of opened and closed *)
(* pull requests and the flow ratio.                                       *)
(***************************************************************************)
\* The loop of CycleTimeCalculator._value over the calculators from i on.
RECURSIVE cycle_loop(_, _, _)
cycle_loop(calcs, i, acc) ==
    IF i > Len(calcs) THEN acc
    ELSE cycle_loop(calcs, i + 1,
                    IF calcs[i].exists
                    THEN [exists |-> TRUE, ct |-> acc.ct + calcs[i].value[1],
                          ct_conf_min |-> acc.ct_conf_min + calcs[i].confidence_min[1],
                          ct_conf_max |-> acc.ct_conf_max + calcs[i].confidence_max[1]]
                    ELSE acc)

cycle_metric(acc) ==
    Metric(acc.exists, IF acc.exists THEN <<acc.ct>> ELSE <<>>,
           IF acc.exists THEN <<acc.ct_conf_min>> ELSE <<>>,
           IF acc.exists THEN <<acc.ct_conf_max>> ELSE <<>>)

\* The cycle time that exists only with the work in progress time.
cycle_of_first(calcs) ==
    cycle_metric(cycle_loop(SubSeq(calcs, 1, 1), 1, [exists |-> FALSE, ct |-> 0, ct_conf_min |-> 0,
                                                     ct_conf_max |-> 0]))

\* calcs holds the values of the work in progress, review, merging and
\* release time calculators.
CycleTimeCalculator_value(calcs) ==
    cycle_metric(cycle_loop(calcs, 1, [exists |-> FALSE, ct |-> 0, ct_conf_min |-> 0,
                                       ct_conf_max |-> 0]))

\* The sum, per pull request, of the peeks that are not None.
CycleTimeCalculator_analyze(peeks) ==
    [j \in DOMAIN peeks[1] |->
        IF \A i \in DOMAIN peeks : peeks[i][j] = <<>> THEN <<>>
        ELSE <<sum_samples([i \in DOMAIN peeks |-> peeks[i][j]])>>]

OpenedCalculator(facts, min_time, max_time) ==
    IF min_time <= facts.created /\ facts.created < max_time THEN <<1>> ELSE <<>>

ClosedCalculator(facts, min_time, max_time) ==
    IF facts.closed # Null /\ min_time <= facts.closed /\ facts.closed < max_time
    THEN <<1>> ELSE <<>>

RECURSIVE GCD(_, _)
GCD(a, b) == IF b = 0 THEN a ELSE GCD(b, a % b)

\* The quotient a / b as a fraction in lowest terms.
true_divide(a, b) == [num |-> a \div GCD(a, b), den |-> b \div GCD(a, b)]

value_or(metric, default) == IF metric.value = <<>> \/ metric.value[1] = 0 THEN default ELSE metric.value[1]

\* The ratio of closed to opened.
flow_ratio_inverted(opened, closed) ==
    IF ~closed.exists /\ ~opened.exists THEN Metric(FALSE, <<>>, <<>>, <<>>)
    ELSE Metric(TRUE, <<true_divide(value_or(closed, 0) + 1, value_or(opened, 0) + 1)>>,
                <<>>, <<>>)

FlowRatioCalculator_value(opened, closed) ==
    IF ~closed.exists /\ ~opened.exists THEN Metric(FALSE, <<>>, <<>>, <<>>)
    ELSE Metric(TRUE, <<true_divide(value_or(opened, 0) + 1, value_or(closed, 0) + 1)>>,
                <<>>, <<>>)

(***************************************************************************)
(* PullRequestBinnedMetricCalculator: the calculators of one bin           *)
(* [min_time, max_time) over the facts, then their values for one group.   *)
(***************************************************************************)
analyze_deps(facts, min_time, max_time) ==
    [wip |-> [j \in DOMAIN facts |-> WorkInProgressTimeCalculator(facts[j], min_time, max_time)],
     review |-> [j \in DOMAIN facts |-> ReviewTimeCalculator(facts[j], min_time, max_time, FALSE)],
     merging |-> [j \in DOMAIN facts |-> MergingTimeCalculator(facts[j], min_time, max_time)],
     release |-> [j \in DOMAIN facts |-> ReleaseTimeCalculator(facts[j], min_time, max_time)],
     opened |-> [j \in DOMAIN facts |-> OpenedCalculator(facts[j], min_time, max_time)],
     closed |-> [j \in DOMAIN facts |-> ClosedCalculator(facts[j], min_time, max_time)]]

dep_values(peek, group) ==
    [wip |-> AverageMetricCalculator_value(group_samples(peek.wip, group)),
     review |-> AverageMetricCalculator_value(group_samples(peek.review, group)),
     merging |-> AverageMetricCalculator_value(group_samples(peek.merging, group)),
     release |-> AverageMetricCalculator_value(group_samples(peek.release, group)),
     opened |-> SumMetricCalculator_value(group_samples(peek.opened, group)),
     closed |-> SumMetricCalculator_value(group_samples(peek.closed, group))]

binned_metrics(peek, value) ==
    [peek |-> peek, value |-> value,
     cycle_peek |-> CycleTimeCalculator_analyze(<<peek.wip, peek.review, peek.merging,
                                                  peek.release>>),
     cycle_time |-> CycleTimeCalculator_value(<<value.wip, value.review, value.merging,
                                                value.release>>),
     flow_ratio |-> FlowRatioCalculator_value(value.opened, value.closed)]

(***************************************************************************)
(* search_prs: the ordering of the pull requests found. peek[field][j] is  *)
(* the value of the metric for pull request j: <<>> (null) or <<v>>;       *)
(* indexes count from 1.                                                   *)
(***************************************************************************)
FIELDS == {"pr-size", "pr-review-time"}

\* x is put in front of the elements with its own key.
RECURSIVE insert_before_equal(_, _, _)
insert_before_equal(sorted, x, key) ==
    IF sorted = <<>> THEN <<x>>
    ELSE IF key[Head(sorted)] < key[x]
    THEN <<Head(sorted)>> \o insert_before_equal(Tail(sorted), x, key)
    ELSE <<x>> \o sorted

\* x is put behind every element whose key is not greater than its own.
RECURSIVE insert_stable(_, _, _)
insert_stable(sorted, x, key) ==
    IF sorted = <<>> THEN <<x>>
    ELSE IF key[Head(sorted)] <= key[x]
    THEN <<Head(sorted)>> \o insert_stable(Tail(sorted), x, key)
    ELSE <<x>> \o sorted

\* indexes in the order of np.argsort(kind="stable") of their keys.
RECURSIVE argsort_stable(_, _)
argsort_stable(indexes, key) ==
    IF indexes = <<>> THEN <<>>
    ELSE insert_stable(argsort_stable(SubSeq(indexes, 1, Len(indexes) - 1), key),
                       indexes[Len(indexes)], key)

\* The positions of ordered_indexes whose value is null.
null_positions(values, ordered_indexes) ==
    {k \in DOMAIN ordered_indexes : values[ordered_indexes[k]] = <<>>}

\* The sort keys of the values that are not null.
notnulls_values(values, direction) ==
    [j \in {i \in DOMAIN values : values[i] # <<>>} |->
        IF direction = "descending" THEN 0 - values[j][1] ELSE values[j][1]]

ordered_parts(expr, indexes_notnull, indexes_null) ==
    IF expr.nulls_first THEN indexes_null \o indexes_notnull
    ELSE indexes_notnull \o indexes_null

\* The discarded numbers are positions of ordered_indexes.
discard_positions(expr, values, ordered_indexes) ==
    IF expr.exclude_nulls THEN null_positions(values, ordered_indexes) ELSE {}

apply_expression(expr, ordered_indexes, values) ==
    [ordered_indexes |->
        ordered_parts(expr,
                      argsort_stable(SelectSeq(ordered_indexes, LAMBDA j : values[j] # <<>>),
                                     notnulls_values(values, expr.direction)),
                      SelectSeq(ordered_indexes, LAMBDA j : values[j] = <<>>)),
     discard |-> discard_positions(expr, values, ordered_indexes)]

\* The loop over reversed(order_by) from expression i down.
RECURSIVE order_loop(_, _, _, _, _)
RECURSIVE order_step(_, _, _, _, _)
order_loop(peek, order_by, i, ordered_indexes, keep_mask) ==
    IF i = 0 THEN [ordered_indexes |-> ordered_indexes, keep_mask |-> keep_mask]
    ELSE IF order_by[i].field \notin FIELDS
    THEN order_loop(peek, order_by, i - 1, ordered_indexes, keep_mask)
    ELSE order_step(peek, order_by, i,
                    apply_expression(order_by[i], ordered_indexes, peek[order_by[i].field]),
                    keep_mask)

order_step(peek, order_by, i, applied, keep_mask) ==
    order_loop(peek, order_by, i - 1, applied.ordered_indexes,
               [j \in DOMAIN keep_mask |-> keep_mask[j] /\ j \notin applied.discard])

kept_positions(res) == SelectSeq(res.ordered_indexes, LAMBDA j : res.keep_mask[j])

\* The indexes of the rows of pr_facts returned, in their order.
_apply_order_by(n, peek, order_by) ==
    IF n = 0 THEN <<>>
    ELSE kept_positions(order_loop(peek, order_by, Len(order_by),
                                   [j \in 1..n |-> j], [j \in 1..n |-> TRUE]))

(***************************************************************************)
(* features/jira/issue_metrics.py: the counters of raised, resolved and    *)
(* open issues.  An issue is a record of its created, resolved, prs_began  *)
(* and released columns; Null is NaT.                                      *)
(***************************************************************************)
\* resolved[prs_began == prs_began][released != released] = NaT assigns into
\* the copy made by the first boolean indexing, so the column compared
\* afterwards holds the resolved times of the facts.
masked_resolved(issue) == issue.resolved

RaisedCounter(issue, min_time, max_time) ==
    IF min_time <= issue.created /\ issue.created < max_time THEN <<1>> ELSE <<>>

ResolvedCounter(issue, min_time, max_time) ==
    IF /\ masked_resolved(issue) # Null
       /\ min_time <= masked_resolved(issue)
       /\ masked_resolved(issue) < max_time
    THEN <<1>> ELSE <<>>

\* Issues resolved after the end of the bin only; the unresolved ones are not counted.
open_if_resolved_later(issue, min_time, max_time) ==
    IF /\ masked_resolved(issue) # Null /\ masked_resolved(issue) >= max_time
       /\ issue.created < max_time
    THEN <<1>> ELSE <<>>

OpenCounter(issue, min_time, max_time) ==
    IF /\ \/ masked_resolved(issue) # Null /\ masked_resolved(issue) >= max_time
          \/ masked_resolved(issue) = Null
       /\ issue.created < max_time
    THEN <<1>> ELSE <<>>

\* The value of the three counters in the bin [min_time, max_time) over the
\* issues of the group.
issue_counters(facts, group, min_time, max_time) ==
    [raised |-> SumMetricCalculator_value(group_samples(
                    [j \in DOMAIN facts |-> RaisedCounter(facts[j], min_time, max_time)], group)),
     resolved |-> SumMetricCalculator_value(group_samples(
                    [j \in DOMAIN facts |-> ResolvedCounter(facts[j], min_time, max_time)], group)),
     open |-> SumMetricCalculator_value(group_samples(
                    [j \in DOMAIN facts |-> OpenCounter(facts[j], min_time, max_time)], group))]

\* JIRABinnedEnsemblesCalculator.__call__ over one series of time intervals:
\* bin i spans [time_intervals[i], time_intervals[i + 1]).
jira_binned(facts, time_intervals, group) ==
    [i \in 1..(Len(time_intervals) - 1) |->
        issue_counters(facts, group, time_intervals[i], time_intervals[i + 1])]

(***************************************************************************)
(* Specification SpecDag: any sequence of DAG fetches for repository r1.   *)
(***************************************************************************)
NoCall == [op |-> "none"]

\* A commit that the Metadata Store has not ingested has no rows at all.
CDate == [c \in Shas |-> Rank[c]]

Author == [c \in Shas |-> "dev"]

\* Every commit was committed by GitHub for the user who merged.
Committer == [c \in Shas |-> "dev"]

CommitterName == [c \in Shas |-> "GitHub"]

CommitterEmail == [c \in Shas |-> "noreply@github.com"]

DagWorlds ==
    {[parents |-> g, known |-> k, cdate |-> CDate, author |-> Author,
      committer |-> Committer, committer_name |-> CommitterName,
      committer_email |-> CommitterEmail,
      releases |-> {}, prs |-> {}, branches |-> {}] :
        g \in Graphs, k \in {Shas, Shas \ {"c4"}}}

InitDag ==
    /\ mdb \in {w \in DagWorlds : \A c \in Shas \ w.known : w.parents[c] = <<>>}
    /\ pdb = [r \in Repos |-> NoHistory]
    /\ cache = <<>>
    /\ sdb = <<>>
    /\ last = NoCall

FetchDag(commit_ids) ==
    LET res == _fetch_commit_history_dag(pdb["r1"], commit_ids)
    IN  /\ pdb' = [pdb EXCEPT !["r1"] = res.stored]
        /\ last' = [op |-> "fetch_dag", required |-> commit_ids, before |-> pdb["r1"],
                    dag |-> res.dag, mdb_access |-> res.mdb_access,
                    wrote |-> res.wrote, error |-> res.error,
                    \* history: does this call repeat the previous one, and
                    \* what did the previous one return
                    repeats |-> last.op = "fetch_dag" /\ last.required = commit_ids,
                    previous |-> IF last.op = "fetch_dag" /\ last.required = commit_ids
                                 THEN last.dag ELSE EmptyDag]
        /\ UNCHANGED <<mdb, cache, sdb>>

NextDag == \E commit_ids \in SUBSET Shas : FetchDag(commit_ids)

SpecDag == InitDag /\ [][NextDag]_vars

Edges(dag) == {e \in Shas \X Shas : e[1] \in DOMAIN dag /\ e[2] \in dag[e[1]]}

\* C7: every commit and every parent edge of the commit history stored before
\* a fetch is still in the stored history and in the returned dag after it.
C7_RefreshKeepsStoredDag ==
    last.op = "fetch_dag" /\ last.before.present =>
        /\ DOMAIN last.before.dag \subseteq DOMAIN pdb["r1"].dag
        /\ Edges(last.before.dag) \subseteq Edges(pdb["r1"].dag)
        /\ DOMAIN last.before.dag \subseteq DOMAIN last.dag
        /\ Edges(last.before.dag) \subseteq Edges(last.dag)

C9_MissingCommitReported ==
    (last.op = "fetch_dag" /\ \E sha \in last.required : sha \notin mdb.known)
    => last.error = "MissingCommit"

(***************************************************************************)
(* Specification SpecLoad: one load_releases call on a Metadata Store with *)
(* two repositories.  r1 holds the chain c1 <- c2 <- c3 with branches m    *)
(* (default, at c3) and d (at c2); r2 holds the single commit c4 on its    *)
(* default branch m.  The release rows, the merged PR, the rules, the      *)
(* window and the failing fetch vary.                                      *)
(***************************************************************************)
MaxTime == 6

Times == 0..MaxTime

LoadGraph == [c \in Shas |-> CASE c = "c2" -> <<"c1">> [] c = "c3" -> <<"c2">> [] OTHER -> <<>>]

Branches ==
    {[repo |-> "r1", name |-> <<"m">>, commit |-> "c3", is_default |-> TRUE],
     [repo |-> "r1", name |-> <<"d">>, commit |-> "c2", is_default |-> FALSE],
     [repo |-> "r2", name |-> <<"m">>, commit |-> "c4", is_default |-> TRUE]}

ReleaseRow(id, repo, sha, tag, at, commit_id) ==
    [id |-> <<id>>, repo |-> repo, tag |-> tag, sha |-> sha, commit_id |-> commit_id,
     published_at |-> at, author |-> "rel"]

MergedPR(id, repo, sha, at, base) ==
    [id |-> id, repo |-> repo, merge_commit |-> sha, merged_at |-> at,
     base_ref |-> base, hidden |-> FALSE]

LoadReleaseSets ==
    {a \cup b :
        a \in {{}} \cup {{ReleaseRow("R1", "r1", "c3", <<"v", "1">>, t, n)} :
                            t \in Times, n \in BOOLEAN},
        b \in {{}, {ReleaseRow("R2", "r2", "c4", <<"v", "2">>, 3, TRUE)}}}

LoadWorlds ==
    {[parents |-> LoadGraph, known |-> Shas, cdate |-> CDate, author |-> Author,
      committer |-> Committer, committer_name |-> CommitterName,
      committer_email |-> CommitterEmail,
      releases |-> rs, prs |-> ps, branches |-> Branches] :
        rs \in LoadReleaseSets,
        ps \in {{}, {MergedPR("p1", "r1", "c2", 2, <<"m">>)}}}

Kinds == {"tag", "branch", "tag_or_branch"}

Rule(kind, tags, branches) == [match |-> kind, tags |-> tags, branches |-> branches]

DefaultRules == {Rule(k, <<"ANY">>, <<"DEFAULT">>) : k \in Kinds}

Parts == {"tag", "branch", "tag_or_branch"}

Sites ==
    {Site("fetch_tags", p, "", <<>>) : p \in {"tag", "tag_or_branch"}}
    \cup {Site("probe", "tag_or_branch", "", <<>>)}
    \cup {Site("extract_branches", p, "", <<>>) : p \in {"branch", "tag_or_branch"}}
    \cup {Site("merge_points", p, b.repo, b.name) :
            p \in {"branch", "tag_or_branch"}, b \in Branches}
    \cup {Site("merge_commit_releases", p, r, <<>>) :
            p \in {"branch", "tag_or_branch"}, r \in Repos}

Windows == {w \in Times \X Times : w[1] <= w[2] /\ w[2] <= w[1] + 1}

InitLoad ==
    /\ mdb \in LoadWorlds
    /\ pdb = [r \in Repos |-> NoHistory]
    /\ cache = <<>>
    /\ sdb = <<>>
    /\ last = NoCall

\* The state after a call that returned res.
ReturnLoad(repos, w, settings, res) ==
    /\ last' = [op |-> "load_releases", repos |-> repos, time_from |-> w[1],
                time_to |-> w[2], settings |-> settings, error |-> res.error,
                rows |-> res.rows, raised |-> res.raised,
                gathered |-> res.gathered, probed |-> res.probed,
                by_tag |-> res.by_tag, by_branch |-> res.by_branch]
    /\ UNCHANGED <<mdb, pdb, cache, sdb>>

LoadReleases(repos, w, settings, failing) ==
    /\ last.op = "none"
    /\ ReturnLoad(repos, w, settings, load_releases(repos, w[1], w[2], settings, failing))

NextLoad ==
    /\ last.op = "none"
    /\ \E repos \in {{"r1"}, Repos}, w \in Windows, settings \in [Repos -> DefaultRules],
          failing \in {{}} \cup {{s} : s \in Sites} :
           LoadReleases(repos, w, settings, failing)

SpecLoad == InitLoad /\ [][NextLoad]_vars

\* C6: when any constituent fetch of load_releases raises, load_releases
\* raises and returns no release, whatever its other constituents returned.
C6_LoadReleasesFailsWhole ==
    (last.op = "load_releases" /\ last.raised # {})
    => (last.error /\ last.rows = <<>>)

C6_Witness ==
    /\ last.op = "load_releases"
    /\ \E s \in last.raised : s.kind = "merge_points"
    /\ last.gathered # <<>>
    /\ last.error

\* C10: a tag_or_branch repository is handled by the tag strategy exactly when
\* the Metadata Store has a release row of it published within
\* [time_from - 4 weeks, time_to + 4 weeks], by the branch strategy otherwise,
\* and its releases carry the matched_by of that one strategy.
C10_TagOrBranchProbe ==
    (last.op = "load_releases" /\ last.probed) =>
        \A repo \in last.repos :
            last.settings[repo].match = "tag_or_branch" =>
                /\ repo \in last.by_tag <=>
                    \E r \in mdb.releases :
                        /\ r.repo = repo
                        /\ last.time_from - tag_by_branch_probe_lookaround <= r.published_at
                        /\ r.published_at <= last.time_to + tag_by_branch_probe_lookaround
                /\ repo \in last.by_branch <=> repo \notin last.by_tag
                /\ \A i \in DOMAIN last.rows :
                    last.rows[i].repo = repo =>
                        last.rows[i].matched_by =
                            IF repo \in last.by_tag THEN "tag" ELSE "branch"

C10_Witness ==
    /\ last.op = "load_releases"
    /\ last.probed
    /\ "r1" \in last.by_branch
    /\ "r2" \in last.by_tag
    /\ \E i \in DOMAIN last.rows : last.rows[i].matched_by = "tag"
    /\ \E i \in DOMAIN last.rows : last.rows[i].matched_by = "branch"
    /\ \E r \in mdb.releases :
        /\ r.repo = "r1"
        /\ r.published_at = last.time_to + tag_by_branch_probe_lookaround + 1

(***************************************************************************)
(* Specification SpecMap: one call of map_prs_to_releases over a           *)
(* repository whose commit graph, releases and merged pull requests vary.  *)
(***************************************************************************)
\* Commit graphs over c1..c3, unrelated histories (orphan branches) included;
\* c4 stays apart.
MapGraphs ==
    {[c \in Shas |-> CASE c = "c2" -> p2 [] c = "c3" -> p3 [] OTHER -> <<>>] :
        p2 \in ParentLists("c2"), p3 \in ParentLists("c3")}

MapReleaseSets ==
    {A \cup B :
        A \in {{}} \cup {{ReleaseRow("R1", "r1", c, <<"v", "1">>, at, TRUE)} :
                            c \in {"c1", "c2", "c3"}, at \in {1, 2, 4}},
        B \in {{}} \cup {{ReleaseRow("R2", "r1", "c3", <<"v", "2">>, at, TRUE)} :
                            at \in {2, 4}}}

MapPRSets ==
    {A \cup B :
        A \in {{MergedPR("p1", "r1", c, at, <<"m">>)} : c \in {"c1", "c2", "c3"}, at \in {1, 3}},
        B \in {{}, {MergedPR("p2", "r1", "c3", 4, <<"m">>)}}}

MapWorlds ==
    {[parents |-> g, known |-> Shas, cdate |-> CDate, author |-> Author,
      committer |-> Committer, committer_name |-> CommitterName,
      committer_email |-> CommitterEmail,
      releases |-> rs, prs |-> ps,
      branches |-> {[repo |-> "r1", name |-> <<"m">>, commit |-> "c3", is_default |-> TRUE]}] :
        g \in MapGraphs, rs \in MapReleaseSets, ps \in MapPRSets}

\* Pull requests are merged into the branch m, whose head is c3.
MergedIntoBranch(w) == \A p \in w.prs : p.merge_commit \in Closure(w.parents, {"c3"})

MapWindows == {<<0, 5>>, <<1, 3>>, <<3, 4>>}

InitMap ==
    /\ mdb \in {w \in MapWorlds : MergedIntoBranch(w)}
    /\ pdb = [r \in Repos |-> NoHistory]
    /\ cache = <<>>
    /\ sdb = <<>>
    /\ last = NoCall

\* The state after a call that returned res.
ReturnMapPRs(prs, w, release_settings, use_cache, res) ==
    /\ pdb' = res.precomputed
    /\ cache' = res.store
    /\ last' = [op |-> "map_prs_to_releases", prs |-> prs,
                time_from |-> w[1], time_to |-> w[2],
                settings |-> release_settings, use_cache |-> use_cache,
                error |-> res.error, rows |-> res.rows,
                releases |-> res.releases, two_loads |-> res.two_loads,
                new_match |-> res.new_match, old_match |-> res.old_match]
    /\ UNCHANGED <<mdb, sdb>>

MapPRs(prs, w, release_settings, use_cache) ==
    /\ last.op = "none"
    /\ ReturnMapPRs(prs, w, release_settings, use_cache,
                    map_prs_to_releases(prs, w[1], w[2], release_settings, pdb, cache,
                                        use_cache))

NextMap ==
    \E prs \in SUBSET mdb.prs, w \in MapWindows, rule \in DefaultRules :
        MapPRs(prs, w, [r \in Repos |-> rule], FALSE)

SpecMap == InitMap /\ [][NextMap]_vars


\* The release row r contains the merge commit of the pull request p: the
\* commit is the release's commit or one of its ancestors.
ReleaseContains(r, p) ==
    r.repo = p.repo /\ p.merge_commit \in Closure(mdb.parents, {r.sha})

ContainingReleases(p) ==
    {i \in DOMAIN last.releases : ReleaseContains(last.releases[i], p)}

\* C1: map_prs_to_releases maps every pull request whose merge commit is
\* contained in a loaded release to a containing release with the earliest
\* published_at, and returns no row for a pull request that no loaded
\* release contains.
C1_EarliestContainingRelease ==
    last.op = "map_prs_to_releases" =>
        \A p \in last.prs :
            IF ContainingReleases(p) = {}
            THEN \A row \in last.rows : row.index # <<p.id>>
            ELSE /\ ~last.error
                 /\ \E row \in last.rows :
                      /\ row.index = <<p.id>>
                      /\ \E i \in ContainingReleases(p) :
                           /\ last.releases[i].id = row.url
                           /\ \A j \in ContainingReleases(p) :
                                last.releases[i].published_at
                                    <= last.releases[j].published_at

\* C3: when two loads are made, the old load applies to every repository of
\* the query the match kind that the new load applied to it.
C3_OldLoadKeepsMatchKind ==
    last.op = "map_prs_to_releases" /\ last.two_loads =>
        \A repo \in DOMAIN last.new_match : last.old_match[repo] = last.new_match[repo]

\* C4: every returned row has published_at >= the merged_at of its pull
\* request.
C4_PublishedNotBeforeMerged ==
    last.op = "map_prs_to_releases" =>
        \A row \in last.rows :
            \A p \in last.prs : row.index = <<p.id>> => row.published_at >= p.merged_at

\* A returned row whose release was published before the pull request merged.
C4_Witness ==
    /\ last.op = "map_prs_to_releases"
    /\ \E row \in last.rows :
         \E p \in last.prs :
            /\ row.index = <<p.id>>
            /\ \E i \in DOMAIN last.releases :
                 /\ last.releases[i].id = row.url
                 /\ last.releases[i].published_at < p.merged_at

(***************************************************************************)
(* Specification SpecCache: calls of map_prs_to_releases that share one    *)
(* cache and one Precomputed Store while the release rule changes.         *)
(***************************************************************************)
CacheWorlds ==
    {[parents |-> LoadGraph, known |-> Shas, cdate |-> CDate, author |-> Author,
      committer |-> Committer, committer_name |-> CommitterName,
      committer_email |-> CommitterEmail,
      releases |-> rs,
      prs |-> {MergedPR("p1", "r1", "c2", 2, <<"m">>), MergedPR("p2", "r1", "c3", 3, <<"m">>)},
      branches |-> {[repo |-> "r1", name |-> <<"m">>, commit |-> "c3", is_default |-> TRUE]}] :
        rs \in {{}, {ReleaseRow("R1", "r1", "c3", <<"v", "1">>, 4, TRUE)}}}

\* Rules that differ by match kind or by tag regular expression.
CacheRules ==
    {Rule("tag", <<"ANY">>, <<"DEFAULT">>), Rule("tag", <<"x", "ANY">>, <<"DEFAULT">>),
     Rule("tag_or_branch", <<"ANY">>, <<"DEFAULT">>),
     Rule("branch", <<"ANY">>, <<"DEFAULT">>)}

InitCache ==
    /\ mdb \in CacheWorlds
    /\ pdb = [r \in Repos |-> NoHistory]
    /\ cache = <<>>
    /\ sdb = <<>>
    /\ last = NoCall

\* One call; last also keeps the cache as it was before the call and what the
\* same call returns when no cache client is given.
ReturnMapPRsCached(prs, release_settings, use_cache, res, bare) ==
    /\ pdb' = res.precomputed
    /\ cache' = res.store
    /\ last' = [op |-> "map_prs_to_releases", prs |-> prs,
                settings |-> release_settings, use_cache |-> use_cache,
                error |-> res.error, rows |-> res.rows,
                cache_before |-> cache,
                uncached_error |-> bare.error, uncached_rows |-> bare.rows]
    /\ UNCHANGED <<mdb, sdb>>

MapPRsCached(prs, release_settings, use_cache) ==
    ReturnMapPRsCached(
        prs, release_settings, use_cache,
        map_prs_to_releases(prs, 1, 5, release_settings, pdb, cache, use_cache),
        map_prs_to_releases(prs, 1, 5, release_settings, pdb, cache, FALSE))

NextCache ==
    \E prs \in {x \in SUBSET mdb.prs : \E p \in x : p.id = "p1"},
       rule \in CacheRules, use_cache \in BOOLEAN :
        MapPRsCached(prs, [r \in Repos |-> rule], use_cache)

SpecCache == InitCache /\ [][NextCache]_vars

\* The entries of the cache, as it was before the call, that belong to a pull
\* request of the call and were stored under another rule of its repository.
StaleEntries ==
    {k \in DOMAIN last.cache_before :
        \E p \in last.prs : k[1] = p.id /\ k[2] # last.settings[p.repo]}

\* C2: a call that finds in the shared cache entries stored under a different
\* rule returns what the same call returns without a cache.
C2_RuleChangeServesNoStaleEntry ==
    last.op = "map_prs_to_releases" /\ last.use_cache /\ StaleEntries # {} =>
        /\ last.error = last.uncached_error
        /\ last.rows = last.uncached_rows

\* A call with the cache returns for a pull request a row that differs from
\* the entry an earlier call stored for it under another rule.
C2_Witness ==
    /\ last.op = "map_prs_to_releases" /\ last.use_cache
    /\ \E k \in StaleEntries :
         \E row \in last.rows :
            /\ row.index = <<k[1]>>
            /\ row.url # last.cache_before[k].url

(***************************************************************************)
(* Specification SpecR2P: one call of map_releases_to_prs over a           *)
(* repository whose commit graph, releases and merged pull request vary.   *)
(***************************************************************************)
R2PReleaseSets ==
    {A \cup B :
        A \in {{}} \cup {{ReleaseRow("R1", "r1", c, <<"v", "1">>, at, TRUE)} :
                            c \in {"c1", "c2", "c3"}, at \in {0, 3, 4}},
        B \in {{}} \cup {{ReleaseRow("R2", "r1", "c3", <<"v", "2">>, at, TRUE)} :
                            at \in {5, 6}}}

R2PWorlds ==
    {[parents |-> g, known |-> Shas, cdate |-> CDate, author |-> Author,
      committer |-> Committer, committer_name |-> CommitterName,
      committer_email |-> CommitterEmail,
      releases |-> rs, prs |-> {MergedPR("p1", "r1", c, at, <<"m">>)},
      branches |-> {[repo |-> "r1", name |-> <<"m">>, commit |-> "c3", is_default |-> TRUE]}] :
        g \in MapGraphs, rs \in R2PReleaseSets, c \in {"c1", "c2", "c3"}, at \in {1, 4}}

R2PWindows == {<<4, 6>>, <<5, 6>>, <<5, 7>>}

InitR2P ==
    /\ mdb \in {w \in R2PWorlds : MergedIntoBranch(w)}
    /\ pdb = [r \in Repos |-> NoHistory]
    /\ cache = <<>>
    /\ sdb = <<>>
    /\ last = NoCall

\* The releases of the repositories under the settings, whenever published.
AllReleases(repos, release_settings) ==
    load_releases(repos, 0, MaxTime + 1, release_settings, {}).rows

\* The state after a call that returned res.
ReturnMapReleases(repos, w, release_settings, res) ==
    /\ pdb' = res.precomputed
    /\ last' = [op |-> "map_releases_to_prs", repos |-> repos,
                time_from |-> w[1], time_to |-> w[2],
                settings |-> release_settings,
                error |-> res.error, prs |-> res.prs, releases |-> res.releases,
                all_releases |-> AllReleases(repos, release_settings)]
    /\ UNCHANGED <<mdb, cache, sdb>>

MapReleases(repos, w, release_settings) ==
    /\ last.op = "none"
    /\ ReturnMapReleases(repos, w, release_settings,
                         map_releases_to_prs(repos, w[1], w[2], release_settings, pdb))

NextR2P ==
    \E w \in R2PWindows, rule \in {r \in DefaultRules : r.match # "tag_or_branch"} :
        MapReleases({"r1"}, w, [r \in Repos |-> rule])

SpecR2P == InitR2P /\ [][NextR2P]_vars

\* C5: every returned pull request was merged before t0, some release
\* published in [t0, t1) contains its merge commit and no release published
\* before t0 does.
C5_ReleasedInWindowOnly ==
    last.op = "map_releases_to_prs" =>
        \A p \in last.prs :
            LET containing == {i \in DOMAIN last.all_releases :
                                  ReleaseContains(last.all_releases[i], p)}
                at(i) == last.all_releases[i].published_at
            IN  /\ p.merged_at < last.time_from
                /\ \E i \in containing : last.time_from <= at(i) /\ at(i) < last.time_to
                /\ \A i \in containing : at(i) >= last.time_from

\* C11: every release that load_releases returns was published in
\* [time_from, time_to): none is dated exactly time_to.
C11_LoadWindowHalfOpen ==
    last.op = "load_releases" =>
        \A i \in DOMAIN last.rows :
            /\ last.time_from <= last.rows[i].published_at
            /\ last.rows[i].published_at < last.time_to

\* C12: the release frame of one query (a single load, or the new and the
\* old load concatenated) holds at most one release per (repository, sha).
C12_OneReleasePerCommit ==
    last.op = "map_prs_to_releases" =>
        \A i, j \in DOMAIN last.releases :
            (/\ last.releases[i].repo = last.releases[j].repo
             /\ last.releases[i].sha = last.releases[j].sha) => i = j

(***************************************************************************)
(* Specification SpecTag: one load_releases call on a tag-matched          *)
(* repository; the tag name of its release and the tag pattern vary.       *)
(***************************************************************************)
MaxTagLen == 3

MaxPatternLen == 3

\* Sequences over the alphabet of length 1..n.
Words(alphabet, n) == UNION {[1..k -> alphabet] : k \in 1..n}

TagNames == Words({"v", "1"}, MaxTagLen)

TagPatterns == Words({"v", "1", "ANY", "|", "$"}, MaxPatternLen)

TagWorlds ==
    {[parents |-> LoadGraph, known |-> Shas, cdate |-> CDate, author |-> Author,
      committer |-> Committer, committer_name |-> CommitterName,
      committer_email |-> CommitterEmail,
      releases |-> {ReleaseRow("R1", "r1", "c3", name, 3, TRUE)}, prs |-> {},
      branches |-> Branches] : name \in TagNames}

InitTag ==
    /\ mdb \in TagWorlds
    /\ pdb = [r \in Repos |-> NoHistory]
    /\ cache = <<>>
    /\ sdb = <<>>
    /\ last = NoCall

NextTag ==
    \E pattern \in TagPatterns :
        LoadReleases({"r1"}, <<0, MaxTime>>,
                     [r \in Repos |-> Rule("tag", pattern, <<"DEFAULT">>)], {})

SpecTag == InitTag /\ [][NextTag]_vars

\* The pattern matches the name from its start to its end (re.fullmatch).
WholeNameMatches(re, name) ==
    \E alt \in Alternatives(re) : match_here(Append(alt, "END"), name)

\* C13: a tag-matched repository gets only releases whose whole tag name
\* matches its tag pattern.
C13_WholeTagNameMatches ==
    last.op = "load_releases" =>
        \A i \in DOMAIN last.rows :
            last.rows[i].matched_by = "tag" =>
                WholeNameMatches(last.settings[last.rows[i].repo].tags, last.rows[i].tag)

(***************************************************************************)
(* Specification SpecMine: one _mine_monorepo_releases call on the         *)
(* releases of a repository whose commit graph and tags vary.              *)
(***************************************************************************)
\* A tag on each marked commit, published at the mark; mark 0: no tag.
MineReleaseRows(marks) ==
    UNION {IF marks[c] = 0 THEN {}
           ELSE {ReleaseRow(c, "r1", c, <<"v", c>>, marks[c], TRUE)} :
              c \in DOMAIN marks}

\* Every commit graph, by the parents of c2, c3 and c4.
MineWorlds ==
    {[parents |-> [c \in Shas |-> CASE c = "c2" -> p2 [] c = "c3" -> p3
                                     [] c = "c4" -> p4 [] OTHER -> <<>>],
      known |-> Shas, cdate |-> CDate, author |-> Author,
      committer |-> Committer, committer_name |-> CommitterName,
      committer_email |-> CommitterEmail,
      releases |-> MineReleaseRows(marks), prs |-> {},
      branches |-> {[repo |-> "r1", name |-> <<"m">>, commit |-> "c4", is_default |-> TRUE]}] :
        p2 \in ParentLists("c2"), p3 \in ParentLists("c3"), p4 \in ParentLists("c4"),
        marks \in [{"c2", "c3", "c4"} -> {0, 1, 5}]}

InitMine ==
    /\ mdb \in MineWorlds
    /\ pdb = [r \in Repos |-> NoHistory]
    /\ cache = <<>>
    /\ sdb = <<>>
    /\ last = NoCall

\* The state after a call that returned res.
ReturnMine(releases, time_boundary, res) ==
    /\ pdb' = [pdb EXCEPT !["r1"] = res.stored]
    /\ last' = [op |-> "_mine_monorepo_releases", releases |-> releases,
                time_boundary |-> time_boundary, error |-> res.error, data |-> res.data]
    /\ UNCHANGED <<mdb, cache, sdb>>

\* The releases come from load_releases, as in the callers of mine_releases.
MineLoaded(releases, time_boundary) ==
    /\ last.op = "none"
    /\ releases # <<>>
    /\ ReturnMine(releases, time_boundary,
                  _mine_monorepo_releases(releases, time_boundary, pdb["r1"]))

NextMine ==
    \E rule \in {r \in DefaultRules : r.match # "tag_or_branch"}, time_boundary \in {0, 3} :
        MineLoaded(load_releases({"r1"}, 0, MaxTime, [r \in Repos |-> rule], {}).rows,
                   time_boundary)

SpecMine == InitMine /\ [][NextMine]_vars

\* C14: the commits counted for two different releases of one call are
\* disjoint.
C14_OwnedCommitsDisjoint ==
    last.op = "_mine_monorepo_releases" =>
        \A i, j \in DOMAIN last.data :
            i # j => last.data[i].included_commits \cap last.data[j].included_commits = {}

(***************************************************************************)
(* Specification SpecMark: one mark_dag_access call on any commit graph    *)
(* and any sequence of distinct heads.                                     *)
(***************************************************************************)
MaxHeads == 3

HeadSeqs ==
    {h \in UNION {[1..n -> Shas] : n \in 1..MaxHeads} :
        \A i, j \in DOMAIN h : h[i] = h[j] => i = j}

InitMark ==
    /\ mdb \in {w \in DagWorlds : w.known = Shas}
    /\ pdb = [r \in Repos |-> NoHistory]
    /\ cache = <<>>
    /\ sdb = <<>>
    /\ last = NoCall

MarkDagAccess(heads) ==
    /\ last.op = "none"
    /\ last' = [op |-> "mark_dag_access", heads |-> heads,
                marks |-> mark_dag_access(mdb.parents, heads)]
    /\ UNCHANGED <<mdb, pdb, cache, sdb>>

NextMark == \E heads \in HeadSeqs : MarkDagAccess(heads)

SpecMark == InitMark /\ [][NextMark]_vars

\* The 0-based indexes of the heads that reach commit c.
ReachingHeads(c) ==
    {i - 1 : i \in {j \in DOMAIN last.heads : c \in Closure(mdb.parents, {last.heads[j]})}}

\* C15: every commit that some head reaches is labelled, and its label is the
\* lowest index among the heads that reach it.
C15_LowestHeadOwns ==
    last.op = "mark_dag_access" =>
        \A c \in Shas :
            ReachingHeads(c) # {} =>
                /\ c \in DOMAIN last.marks
                /\ last.marks[c] = Min(ReachingHeads(c))

(***************************************************************************)
(* Specification SpecHidden: one call of load_releases, of                 *)
(* map_releases_to_prs or of _mine_contributors over a repository whose    *)
(* one merged pull request may be hidden.                                  *)
(***************************************************************************)
\* The pull request p with the columns that _mine_contributors reads.
AuthoredPR(p, hidden) ==
    [id |-> p.id, repo |-> p.repo, merge_commit |-> p.merge_commit,
     merged_at |-> p.merged_at, base_ref |-> p.base_ref, hidden |-> hidden,
     user_login |-> "ann", created_at |-> 1, closed_at |-> p.merged_at,
     updated_at |-> p.merged_at]

Users == {[login |-> "ann", name |-> "Ann"], [login |-> "dev", name |-> "Dev"],
          [login |-> "rel", name |-> "Rel"]}

\* A chain c1 <- c2 <- c3, and c3 merging c2 into c1.
HiddenGraphs == {LoadGraph, [LoadGraph EXCEPT !["c3"] = <<"c1", "c2">>]}

HiddenWorlds ==
    {[parents |-> w.parents, known |-> w.known, cdate |-> w.cdate, author |-> w.author,
      committer_name |-> w.committer_name, committer_email |-> w.committer_email,
      releases |-> w.releases, prs |-> {AuthoredPR(p, hidden) : p \in w.prs},
      branches |-> w.branches, committer |-> [c \in Shas |-> "dev"],
      commit_repo |-> [c \in Shas |-> IF c = "c4" THEN "r2" ELSE "r1"],
      comments |-> {[id |-> "k1", repo |-> "r1", user_login |-> "dev", created_at |-> 4]},
      reviews |-> {[id |-> "v1", repo |-> "r1", user_login |-> "dev", submitted_at |-> 5]},
      users |-> Users] :
        w \in {x \in R2PWorlds : x.parents \in HiddenGraphs /\ MergedIntoBranch(x)},
        hidden \in BOOLEAN}

InitHidden ==
    /\ mdb \in HiddenWorlds
    /\ pdb = [r \in Repos |-> NoHistory]
    /\ cache = <<>>
    /\ sdb = <<>>
    /\ last = NoCall

MineContributors(repos, time_from, time_to, with_stats) ==
    /\ last.op = "none"
    /\ last' = [op |-> "mine_contributors", repos |-> repos, time_from |-> time_from,
                time_to |-> time_to, with_stats |-> with_stats,
                contribs |-> _mine_contributors(repos, time_from, time_to, mdb, with_stats)]
    /\ UNCHANGED <<mdb, pdb, cache, sdb>>

NextHidden ==
    \/ /\ last.op = "none"
       /\ \E w \in R2PWindows, rule \in {r \in DefaultRules : r.match # "tag_or_branch"} :
              LoadReleases({"r1"}, w, [r \in Repos |-> rule], {})
    \/ /\ last.op = "none"
       /\ \E w \in R2PWindows, rule \in {r \in DefaultRules : r.match # "tag_or_branch"} :
              MapReleases({"r1"}, w, [r \in Repos |-> rule])
    \/ /\ last.op = "none"
       /\ \E w \in R2PWindows, with_stats \in BOOLEAN :
              MineContributors({"r1"}, w[1], w[2], with_stats)

SpecHidden == InitHidden /\ [][NextHidden]_vars

\* The Metadata Store without its hidden pull requests.
Visible(db) == [db EXCEPT !.prs = {p \in db.prs : ~p.hidden}]

\* Commit c is a merge point of the repository without the hidden pull requests.
VisibleMergePoint(repo, c) ==
    \E b \in {x \in mdb.branches : x.repo = repo} :
        c \in first_parents_in(b.commit, last.time_from, last.time_to)
              \cup merged_pr_commits(Visible(mdb).prs, repo, b.name,
                                     last.time_from, last.time_to)

\* C16: a hidden pull request is not returned by map_releases_to_prs, does
\* not change what mine_contributors returns, and its merge commit is not a
\* release of the branch matcher unless it is a merge point without it.
C16_HiddenPRsInfluenceNothing ==
    /\ last.op = "map_releases_to_prs" => \A p \in last.prs : ~p.hidden
    /\ last.op = "mine_contributors" =>
           last.contribs = _mine_contributors(last.repos, last.time_from, last.time_to,
                                              Visible(mdb), last.with_stats)
    /\ last.op = "load_releases" =>
           \A i \in DOMAIN last.rows :
               last.rows[i].matched_by = "branch" =>
                   VisibleMergePoint(last.rows[i].repo, last.rows[i].sha)

(***************************************************************************)
(* Specification SpecMiners: sequences of calls of the cached miners       *)
(* _mine_contributors and _mine_monorepo_releases sharing one cache.       *)
(***************************************************************************)
MaxCalls == 2

MinerWorlds ==
    {[parents |-> LoadGraph, known |-> Shas, cdate |-> CDate, author |-> Author,
      committer |-> Committer, committer_name |-> CommitterName,
      committer_email |-> CommitterEmail,
      releases |-> {ReleaseRow("R1", "r1", "c2", <<"v", "1">>, 2, TRUE),
                    ReleaseRow("R2", "r1", "c3", <<"v", "2">>, 4, TRUE),
                    ReleaseRow("R3", "r2", "c4", <<"v", "3">>, 4, TRUE)},
      prs |-> {AuthoredPR(MergedPR("p1", "r1", "c2", 2, <<"m">>), hidden)},
      branches |-> Branches,
      commit_repo |-> [c \in Shas |-> IF c = "c4" THEN "r2" ELSE "r1"],
      comments |-> {}, reviews |-> {}, users |-> Users] : hidden \in BOOLEAN}

InitMiners ==
    /\ mdb \in MinerWorlds
    /\ pdb = [r \in Repos |-> NoHistory]
    /\ cache = <<>>
    /\ sdb = <<>>
    /\ last = [op |-> "none", calls |-> 0]

\* The state after a cached call that would return uncached without the cache.
ReturnCached(op, res, uncached, stored) ==
    /\ cache' = res.store
    /\ pdb' = IF res.hit THEN pdb ELSE stored
    /\ last' = [op |-> op, calls |-> last.calls + 1, hit |-> res.hit,
                error |-> res.error, value |-> res.value, uncached |-> uncached]
    /\ UNCHANGED <<mdb, sdb>>

MineContributorsCached(repos, time_from, time_to, with_stats) ==
    /\ last.calls < MaxCalls
    /\ ReturnCached("_mine_contributors",
                    cached(cache, mine_contributors_key(repos, time_from, time_to),
                           [error |-> FALSE,
                            value |-> _mine_contributors(Range(repos), time_from, time_to,
                                                         mdb, with_stats)]),
                    _mine_contributors(Range(repos), time_from, time_to, mdb, with_stats),
                    pdb)

\* One call on the frame of load_releases, mined is what it returns uncached.
MineMonorepoCached(releases, index, mined) ==
    /\ last.calls < MaxCalls
    /\ releases # <<>>
    /\ ReturnCached("_mine_monorepo_releases",
                    cached(cache, mine_monorepo_releases_key(releases, index),
                           [error |-> mined.error, value |-> mined.data]),
                    mined.data,
                    [pdb EXCEPT !["r1"] = mined.stored])

MineMonorepoLoaded(releases, index, time_boundary) ==
    MineMonorepoCached(releases, index,
                       _mine_monorepo_releases(releases, time_boundary, pdb["r1"]))

NextMiners ==
    \/ \E repos \in {<<"r1">>, <<"r1", "r2">>}, w \in {<<0, 3>>, <<0, 6>>},
          with_stats \in BOOLEAN :
            MineContributorsCached(repos, w[1], w[2], with_stats)
    \/ \E w \in {<<0, 3>>, <<3, 6>>, <<0, 6>>}, index \in {"id", "position"},
          time_boundary \in {0, 3} :
            MineMonorepoLoaded(
                load_releases({"r1"}, w[1], w[2],
                              [r \in Repos |-> Rule("tag", <<"ANY">>, <<"DEFAULT">>)], {}).rows,
                index, time_boundary)

SpecMiners == InitMiners /\ [][NextMiners]_vars

\* C17: a call of a cached miner that is answered from the cache returns
\* what the same call returns without the cache.
C17_CacheHitReturnsUncachedValue ==
    (last.op \in {"_mine_contributors", "_mine_monorepo_releases"} /\ last.hit)
        => last.value = last.uncached

(***************************************************************************)
(* Specification SpecRepeat: a few calls of map_prs_to_releases, with or   *)
(* without the cache client, over one unchanged Metadata Store; last keeps *)
(* what the first call with the same arguments returned.                   *)
(***************************************************************************)
MaxRepeats == 3

InitRepeat ==
    /\ mdb \in CacheWorlds
    /\ pdb = [r \in Repos |-> NoHistory]
    /\ cache = <<>>
    /\ sdb = <<>>
    /\ last = [op |-> "none", calls |-> 0, seen |-> <<>>]

\* The state after a call that returned res; args are its pull requests,
\* window and rules.
ReturnRepeated(args, use_cache, res) ==
    /\ pdb' = res.precomputed
    /\ cache' = res.store
    /\ last' = [op |-> "map_prs_to_releases", calls |-> last.calls + 1,
                prs |-> args.prs, settings |-> args.settings, use_cache |-> use_cache,
                error |-> res.error, rows |-> res.rows, cache_before |-> cache,
                repeated |-> args \in DOMAIN last.seen,
                first |-> IF args \in DOMAIN last.seen THEN last.seen[args]
                          ELSE [error |-> res.error, rows |-> res.rows],
                seen |-> [a \in DOMAIN last.seen \cup {args} |->
                             IF a \in DOMAIN last.seen THEN last.seen[a]
                             ELSE [error |-> res.error, rows |-> res.rows]]]
    /\ UNCHANGED <<mdb, sdb>>

MapPRsRepeated(prs, release_settings, use_cache) ==
    /\ last.calls < MaxRepeats
    /\ ReturnRepeated([prs |-> prs, time_from |-> 1, time_to |-> 5,
                       settings |-> release_settings],
                      use_cache,
                      map_prs_to_releases(prs, 1, 5, release_settings, pdb, cache, use_cache))

NextRepeat ==
    \E prs \in {x \in SUBSET mdb.prs : \E p \in x : p.id = "p1"},
       rule \in {r \in DefaultRules : r.match # "tag_or_branch"}, use_cache \in BOOLEAN :
        MapPRsRepeated(prs, [r \in Repos |-> rule], use_cache)

SpecRepeat == InitRepeat /\ [][NextRepeat]_vars

Accounts == {1, 2}

TemplateIds == {1, 2, 3}

GoalBodies ==
    [name : {"a", "b"}, metric : {"pr-lead-time"},
     repositories : {<<"None">>, <<"r1">>, <<"zz">>}]

\* Template 1 belongs to account 1, template 2 to account 2; no template 3.
InitGoal ==
    /\ mdb \in {w \in DagWorlds : w.parents = LoadGraph /\ w.known = Shas}
    /\ pdb = [r \in Repos |-> NoHistory]
    /\ cache = <<>>
    /\ sdb \in {[id \in {1, 2} |-> [account_id |-> id, name |-> n, metric |-> "pr-lead-time",
                                    repositories |-> <<"None">>]] : n \in {"a", "b"}}
    /\ last = NoCall

\* The state after a call by a user of the accounts that ended as res.
ReturnGoal(op, accounts, id, request_body, res) ==
    /\ sdb' = res.db
    /\ last' = [op |-> op, accounts |-> accounts, id |-> id, request_body |-> request_body,
                raised |-> res.raised, detail |-> res.detail, body |-> res.body,
                sdb_before |-> sdb]
    /\ UNCHANGED <<mdb, pdb, cache>>

GetGoalTemplate(accounts, id) ==
    ReturnGoal("get_goal_template", accounts, id, <<>>,
               get_goal_template([accounts |-> accounts], id, sdb))

DeleteGoalTemplate(accounts, id) ==
    ReturnGoal("delete_goal_template", accounts, id, <<>>,
               delete_goal_template([accounts |-> accounts], id, sdb))

UpdateGoalTemplate(accounts, id, body) ==
    ReturnGoal("update_goal_template", accounts, id, body,
               update_goal_template([accounts |-> accounts], id, body, sdb))

NextGoal ==
    \E accounts \in SUBSET Accounts, id \in TemplateIds :
        \/ GetGoalTemplate(accounts, id)
        \/ DeleteGoalTemplate(accounts, id)
        \/ \E body \in GoalBodies : UpdateGoalTemplate(accounts, id, body)

SpecGoal == InitGoal /\ [][NextGoal]_vars

\* The call found the template and its user is not in the owning account.
CallerLacksAccess ==
    /\ last.op \in {"get_goal_template", "delete_goal_template", "update_goal_template"}
    /\ last.id \in DOMAIN last.sdb_before
    /\ last.sdb_before[last.id].account_id \notin last.accounts

\* What the call of last returns when the State Store is db.
OutcomeOn(db) ==
    CASE last.op = "get_goal_template" ->
            get_goal_template([accounts |-> last.accounts], last.id, db)
      [] last.op = "delete_goal_template" ->
            delete_goal_template([accounts |-> last.accounts], last.id, db)
      [] OTHER ->
            update_goal_template([accounts |-> last.accounts], last.id, last.request_body, db)

\* The State Store before the call, less the template that the call names.
WithoutTemplate == [k \in DOMAIN last.sdb_before \ {last.id} |-> last.sdb_before[k]]

\* C19: a call by a user without access to the owning account raises
\* GoalTemplateNotFoundError, exactly as the same call does when the template
\* does not exist, and changes no template.
C19_NoAccessLooksNotFound ==
    CallerLacksAccess =>
        /\ last.raised = "GoalTemplateNotFoundError"
        /\ last.raised = OutcomeOn(WithoutTemplate).raised
        /\ last.detail = OutcomeOn(WithoutTemplate).detail
        /\ last.body = OutcomeOn(WithoutTemplate).body
        /\ sdb = last.sdb_before

\* A user of account 1 who has renamed its own template asks to update the
\* template of account 2.
C19_Witness ==
    /\ CallerLacksAccess
    /\ last.op = "update_goal_template"
    /\ last.accounts = {1} /\ last.id = 2
    /\ DOMAIN sdb = {1, 2}
    /\ sdb[1].name # sdb[2].name

(***************************************************************************)
(* Specification SpecFacts: the time calculators on one facts record and   *)
(* one time bin.                                                           *)
(***************************************************************************)
MaxStamp == 2

Stamps == 1..MaxStamp

OptionalStamps == Stamps \cup {Null}

\* a <= b when both exist.
Precedes(a, b) == a = Null \/ b = Null \/ a <= b

\* The invariants of a PullRequestFacts record, and what its definition and
\* GitHub give: work_began = min(created, first_commit), nothing but a commit
\* is older than the pull request, a merged pull request is closed, a
\* released one is merged, an approval is a review.
PullRequestFacts(facts) ==
    /\ Precedes(facts.first_commit, facts.merged)
    /\ Precedes(facts.first_review_request, facts.last_review)
    /\ Precedes(facts.merged, facts.released)
    /\ Precedes(facts.merged, facts.closed)
    /\ facts.work_began = IF facts.first_commit = Null THEN facts.created
                          ELSE Min({facts.created, facts.first_commit})
    /\ (facts.first_commit = Null) = (facts.last_commit = Null)
    /\ Precedes(facts.first_commit, facts.last_commit)
    /\ \A f \in {"first_review_request", "first_comment_on_first_review", "approved",
                 "last_review", "merged", "closed", "released"} :
          Precedes(facts.created, facts[f])
    /\ Precedes(facts.first_review_request, facts.first_comment_on_first_review)
    /\ (facts.approved # Null => facts.last_review # Null)
    /\ Precedes(facts.approved, facts.last_review)
    /\ (facts.merged # Null => facts.closed # Null)
    /\ (facts.released # Null => facts.merged # Null)

FactsRecords ==
    {facts \in [created : Stamps, work_began : Stamps, first_commit : OptionalStamps,
                last_commit : OptionalStamps, first_review_request : OptionalStamps,
                first_comment_on_first_review : OptionalStamps, approved : OptionalStamps,
                last_review : OptionalStamps, merged : OptionalStamps,
                closed : OptionalStamps, released : OptionalStamps] :
        PullRequestFacts(facts)}

InitFacts ==
    /\ mdb \in FactsRecords
    /\ pdb = [r \in Repos |-> NoHistory]
    /\ cache = <<>>
    /\ sdb = <<>>
    /\ last = NoCall

\* The calculator's sample of the record for the bin [min_time, max_time).
Analyze(metric, min_time, max_time, sample) ==
    /\ last.op = "none"
    /\ last' = [op |-> "_analyze", metric |-> metric, min_time |-> min_time,
                max_time |-> max_time, sample |-> sample]
    /\ UNCHANGED <<mdb, pdb, cache, sdb>>

NextFacts ==
    \E min_time \in 0..MaxStamp, max_time \in 1..(MaxStamp + 1) :
        /\ min_time < max_time
        /\ \/ Analyze("pr-wip-time", min_time, max_time,
                      WorkInProgressTimeCalculator(mdb, min_time, max_time))
           \/ \E allow_unclosed \in BOOLEAN :
                Analyze("pr-review-time", min_time, max_time,
                        ReviewTimeCalculator(mdb, min_time, max_time, allow_unclosed))
           \/ Analyze("pr-merging-time", min_time, max_time,
                      MergingTimeCalculator(mdb, min_time, max_time))
           \/ Analyze("pr-release-time", min_time, max_time,
                      ReleaseTimeCalculator(mdb, min_time, max_time))
           \/ Analyze("pr-lead-time", min_time, max_time,
                      LeadTimeCalculator(mdb, min_time, max_time))
           \/ Analyze("pr-wait-first-review-time", min_time, max_time,
                      WaitFirstReviewTimeCalculator(mdb, min_time, max_time))

SpecFacts == InitFacts /\ [][NextFacts]_vars

\* C20: a sample of a time calculator is not negative.
C20_SamplesNotNegative ==
    (last.op = "_analyze" /\ last.sample # <<>>) => last.sample[1] >= 0

(***************************************************************************)
(* Specification SpecBins: one evaluation of the pull request metrics of   *)
(* one bin and one group over at most MaxFacts pull requests.              *)
(***************************************************************************)
MaxFacts == 2

\* What happened to a pull request created at 1: <<last_commit,
\* first_review_request, last_review, closed, merged, released>>.
BinShapes ==
    {<<Null, Null, Null, Null, Null, Null>>, <<Null, Null, Null, 2, Null, Null>>,
     <<1, Null, Null, Null, Null, Null>>, <<1, Null, Null, 2, Null, Null>>,
     <<1, Null, Null, 2, 2, Null>>, <<1, Null, Null, 2, 2, 2>>,
     <<1, 1, Null, 2, Null, Null>>, <<1, 1, 2, Null, Null, Null>>,
     <<1, 1, 2, 2, Null, Null>>, <<1, 1, 2, 2, 2, 2>>}

BinFacts ==
    {facts \in FactsRecords :
        /\ facts.created = 1
        /\ facts.first_commit = facts.last_commit
        /\ facts.first_comment_on_first_review = Null
        /\ facts.approved = (IF facts.merged = Null THEN Null ELSE facts.last_review)
        /\ <<facts.last_commit, facts.first_review_request, facts.last_review,
             facts.closed, facts.merged, facts.released>> \in BinShapes}

FactsFrames == UNION {[1..n -> BinFacts] : n \in 0..MaxFacts}

InitBins ==
    /\ mdb \in FactsFrames
    /\ pdb = [r \in Repos |-> NoHistory]
    /\ cache = <<>>
    /\ sdb = <<>>
    /\ last = NoCall

ReturnBinned(min_time, max_time, group, peek) ==
    /\ last' = [op |-> "binned", min_time |-> min_time, max_time |-> max_time,
                group |-> group, res |-> binned_metrics(peek, dep_values(peek, group))]
    /\ UNCHANGED <<mdb, pdb, cache, sdb>>

Calculate(min_time, max_time, group) ==
    /\ min_time < max_time
    /\ ReturnBinned(min_time, max_time, group, analyze_deps(mdb, min_time, max_time))

NextBins ==
    /\ last.op = "none"
    /\ \E min_time \in 0..MaxStamp, max_time \in 1..(MaxStamp + 1),
          group \in [DOMAIN mdb -> BOOLEAN] :
           Calculate(min_time, max_time, group)

SpecBins == InitBins /\ [][NextBins]_vars

Stages == {"wip", "review", "merging", "release"}

\* C21: the cycle time of a bin and a group exists if and only if the work
\* in progress, review, merging or release time of that bin and group exists.
C21_CycleExistsIffSomeStage ==
    last.op = "binned" =>
        (last.res.cycle_time.exists <=> \E stage \in Stages : last.res.value[stage].exists)

\* The cycle time exists although there is no work in progress time.
C21_Witness ==
    /\ last.op = "binned"
    /\ last.res.cycle_time.exists
    /\ ~last.res.value.wip.exists
    /\ last.res.value.review.exists

\* The pull requests of the group that the column places in the bin.
InBin(column) ==
    {j \in DOMAIN mdb : /\ last.group[j]
                        /\ mdb[j][column] # Null
                        /\ last.min_time <= mdb[j][column]
                        /\ mdb[j][column] < last.max_time}

\* The flow ratio is (opened + 1) / (closed + 1).
IsFlowRatio(metric) ==
    /\ metric.exists
    /\ metric.value[1].num * (Cardinality(InBin("closed")) + 1)
         = metric.value[1].den * (Cardinality(InBin("created")) + 1)

\* C23 as stated: the flow ratio of every bin is (opened + 1) / (closed + 1).
C23_FlowRatioOfEveryBin ==
    last.op = "binned" => IsFlowRatio(last.res.flow_ratio)

\* C23: the flow ratio of a bin in which a pull request was opened or closed
\* is (opened + 1) / (closed + 1); a bin in which none was has no flow ratio.
C23_FlowRatioOfBusyBin ==
    last.op = "binned" =>
        IF InBin("created") \cup InBin("closed") # {}
        THEN IsFlowRatio(last.res.flow_ratio)
        ELSE ~last.res.flow_ratio.exists

\* Two pull requests were closed in the bin and none was opened.
C23_Witness ==
    /\ last.op = "binned"
    /\ Cardinality(InBin("closed")) = 2
    /\ InBin("created") = {}
    /\ last.res.flow_ratio.value = <<[num |-> 1, den |-> 3]>>

\* The end of the work in progress of the record analyzed.
ChosenEnd ==
    IF mdb.last_review # Null THEN mdb.first_review_request
    ELSE IF mdb.last_commit # Null THEN mdb.last_commit
    ELSE mdb.closed

EndInBin(end) == end # Null /\ last.min_time <= end /\ end < last.max_time

AnalyzedWip == last.op = "_analyze" /\ last.metric = "pr-wip-time"

\* C22 as stated: the sample of the work in progress time is
\* first_review_request - work_began with a last review, else last_commit -
\* work_began with a last commit, else zero for a closed pull request, and it
\* is emitted only for the bin that holds the chosen end.
C22_WipSampleZeroWhenClosed ==
    AnalyzedWip =>
        /\ last.sample # <<>> <=> EndInBin(ChosenEnd)
        /\ last.sample # <<>> =>
              last.sample[1] = IF mdb.last_review # Null
                               THEN mdb.first_review_request - mdb.work_began
                               ELSE IF mdb.last_commit # Null
                               THEN mdb.last_commit - mdb.work_began
                               ELSE 0

\* C22: the same, but a closed pull request without reviews and commits
\* gives closed - work_began.
C22_WipSampleUntilClosed ==
    AnalyzedWip =>
        /\ last.sample # <<>> <=> EndInBin(ChosenEnd)
        /\ last.sample # <<>> =>
              last.sample[1] = IF mdb.last_review # Null
                               THEN mdb.first_review_request - mdb.work_began
                               ELSE IF mdb.last_commit # Null
                               THEN mdb.last_commit - mdb.work_began
                               ELSE mdb.closed - mdb.work_began

\* A closed pull request without reviews and commits gave a sample that is
\* not zero.
C22_Witness ==
    /\ AnalyzedWip
    /\ mdb.last_review = Null
    /\ mdb.last_commit = Null
    /\ mdb.closed # Null
    /\ last.sample = <<mdb.closed - mdb.work_began>>
    /\ last.sample[1] > 0

(***************************************************************************)
(* Specification SpecOrder: one ordering of at most MaxRows pull requests  *)
(* by one or two metrics.                                                  *)
(***************************************************************************)
MaxRows == 3

\* The metric values of one pull request.
RowValues ==
    {[f \in FIELDS |-> IF f = "pr-size" THEN s ELSE t] :
        s \in {<<>>, <<1>>, <<2>>}, t \in {<<>>, <<1>>}}

FoundFrames == UNION {[1..n -> RowValues] : n \in 0..MaxRows}

Exprs ==
    [field : FIELDS, direction : {"ascending", "descending"}, exclude_nulls : BOOLEAN,
     nulls_first : BOOLEAN]

\* One expression per metric, in either order.
OrderBys ==
    {<<e>> : e \in Exprs}
        \cup {<<ef[1], ef[2]>> : ef \in {x \in Exprs \X Exprs : x[1].field # x[2].field}}

InitOrder ==
    /\ mdb \in FoundFrames
    /\ pdb = [r \in Repos |-> NoHistory]
    /\ cache = <<>>
    /\ sdb = <<>>
    /\ last = NoCall

\* The values of the metrics by field and pull request.
peek_of(pr_facts) == [f \in FIELDS |-> [j \in DOMAIN pr_facts |-> pr_facts[j][f]]]

ApplyOrderBy(order_by) ==
    /\ last' = [op |-> "_apply_order_by", order_by |-> order_by,
                rows |-> _apply_order_by(Len(mdb), peek_of(mdb), order_by)]
    /\ UNCHANGED <<mdb, pdb, cache, sdb>>

NextOrder ==
    /\ last.op = "none"
    /\ \E order_by \in OrderBys : ApplyOrderBy(order_by)

SpecOrder == InitOrder /\ [][NextOrder]_vars

\* Pull request j has a null value for an expression that excludes nulls.
ExcludedByNull(j) ==
    \E i \in DOMAIN last.order_by :
        last.order_by[i].exclude_nulls /\ mdb[j][last.order_by[i].field] = <<>>

\* C24: the ordering step drops a pull request if and only if an expression
\* with exclude_nulls has a null value for it, and keeps every other pull
\* request exactly once.
C24_DroppedIffExcludedNull ==
    last.op = "_apply_order_by" =>
        \A j \in DOMAIN mdb :
            Cardinality({k \in DOMAIN last.rows : last.rows[k] = j})
                = IF ExcludedByNull(j) THEN 0 ELSE 1

\* The place of pull request j under expression e: the group of the nulls,
\* then the value in the direction of the expression.
SortKey(j, e) ==
    IF mdb[j][e.field] = <<>> THEN <<IF e.nulls_first THEN 0 ELSE 1, 0>>
    ELSE <<IF e.nulls_first THEN 1 ELSE 0,
           IF e.direction = "descending" THEN 0 - mdb[j][e.field][1] ELSE mdb[j][e.field][1]>>

KeyLess(a, b) == a[1] < b[1] \/ (a[1] = b[1] /\ a[2] < b[2])

\* Pull request x comes before y by the expressions from i on, and by the
\* input order when all of them tie.
RECURSIVE ComesBefore(_, _, _)
ComesBefore(x, y, i) ==
    IF i > Len(last.order_by) THEN x < y
    ELSE \/ KeyLess(SortKey(x, last.order_by[i]), SortKey(y, last.order_by[i]))
         \/ /\ SortKey(x, last.order_by[i]) = SortKey(y, last.order_by[i])
            /\ ComesBefore(x, y, i + 1)

\* C25: the pull requests kept are sorted by the expressions in the order
\* given, nulls after the values unless nulls_first is set, and pull requests
\* that tie on every expression keep their input order.
C25_SortedByExpressionsInOrder ==
    last.op = "_apply_order_by" =>
        \A k \in DOMAIN last.rows : \A l \in DOMAIN last.rows :
            k < l => ComesBefore(last.rows[k], last.rows[l], 1)

\* Three pull requests were ordered by two expressions: the second decided
\* between two that tie on the first, and two that tie on both kept their order.
C25_Witness ==
    /\ last.op = "_apply_order_by"
    /\ Len(last.order_by) = 2
    /\ Len(last.rows) = 3
    /\ last.rows[1] > last.rows[2]
    /\ mdb[last.rows[1]][last.order_by[1].field] # <<>>
    /\ SortKey(last.rows[1], last.order_by[1]) = SortKey(last.rows[2], last.order_by[1])
    /\ mdb[last.rows[2]] = mdb[last.rows[3]]

(***************************************************************************)
(* Specification SpecPseudo: one call of load_releases for repositories    *)
(* without release rows, matched by branch, whose commits were committed   *)
(* by GitHub or by a developer.                                            *)
(***************************************************************************)
\* Who committed a commit authored by ann: GitHub for her, bob himself, or
\* bob with the e-mail address of GitHub.
CommitKinds ==
    {[committer |-> "web-flow", name |-> "GitHub", email |-> "noreply@github.com"],
     [committer |-> "bob", name |-> "Bob", email |-> "bob@example.com"],
     [committer |-> "bob", name |-> "Bob", email |-> "noreply@github.com"]}

PseudoWorlds ==
    {[parents |-> LoadGraph, known |-> Shas, cdate |-> CDate,
      author |-> [c \in Shas |-> "ann"],
      committer |-> [c \in Shas |-> kind[c].committer],
      committer_name |-> [c \in Shas |-> kind[c].name],
      committer_email |-> [c \in Shas |-> kind[c].email],
      releases |-> {}, prs |-> {}, branches |-> Branches] :
        kind \in [Shas -> CommitKinds]}

InitPseudo ==
    /\ mdb \in PseudoWorlds
    /\ pdb = [r \in Repos |-> NoHistory]
    /\ cache = <<>>
    /\ sdb = <<>>
    /\ last = NoCall

NextPseudo ==
    /\ last.op = "none"
    /\ \E repos \in {{"r1"}, Repos}, w \in Windows \cup {<<0, MaxTime + 1>>},
          kind \in {"branch", "tag_or_branch"} :
           LoadReleases(repos, w, [r \in Repos |-> Rule(kind, <<"ANY">>, <<"DEFAULT">>)], {})

SpecPseudo == InitPseudo /\ [][NextPseudo]_vars

\* The pseudo-releases returned.
PseudoRows ==
    IF last.op = "load_releases"
    THEN {last.rows[i] : i \in {k \in DOMAIN last.rows : last.rows[k].matched_by = "branch"}}
    ELSE {}

\* What a pseudo-release takes from its commit besides its id.
OfItsCommit(row) ==
    /\ row.sha \in mdb.known
    /\ row.tag = NoTag
    /\ row.published_at = mdb.cdate[row.sha]
    /\ row.matched_by = "branch"

CommittedByBot(c) == mdb.committer_email[c] = "noreply@github.com"

CommittedByGitHub(c) == mdb.committer_name[c] = "GitHub" /\ CommittedByBot(c)

\* C27 as stated: the author of a pseudo-release is the author of its commit,
\* or the committer when the committer is noreply@github.com.
C27_AuthorUnlessBotCommitted ==
    \A row \in PseudoRows :
        row.author = IF CommittedByBot(row.sha) THEN mdb.committer[row.sha]
                     ELSE mdb.author[row.sha]

\* C27: the author of a pseudo-release is the author of its commit when
\* GitHub (noreply@github.com) committed it, and the committer otherwise.
C27_AuthorIfGitHubCommitted ==
    \A row \in PseudoRows :
        row.author = IF CommittedByGitHub(row.sha) THEN mdb.author[row.sha]
                     ELSE mdb.committer[row.sha]

\* A commit of GitHub gave its author and a commit of a developer its committer.
C27_Witness ==
    /\ \E row \in PseudoRows : CommittedByGitHub(row.sha) /\ row.author = "ann"
    /\ \E row \in PseudoRows : ~CommittedByBot(row.sha) /\ row.author = "bob"

\* The required commits of the last fetch are all known initial commits.
RequiredInitial ==
    /\ last.required # {}
    /\ \A c \in last.required : c \in mdb.known /\ mdb.parents[c] = <<>>

\* C28: a fetch that crawls for initial commits only, so that the crawl
\* returns no parent edge, returns a dag that holds exactly the required
\* commits, each with no parents.
C28_InitialCommitDag ==
    last.op = "fetch_dag" /\ last.mdb_access /\ RequiredInitial =>
        /\ DOMAIN last.dag = last.required
        /\ \A c \in last.required : last.dag[c] = {}

C28_Witness ==
    /\ last.op = "fetch_dag" /\ last.mdb_access /\ RequiredInitial
    /\ Cardinality(last.required) = 1
    /\ DOMAIN last.dag = last.required
    /\ ~last.wrote

\* C29: the dag returned by a fetch holds every required commit of the
\* repository, whether it came from the stored history, from a crawl or from
\* the fallback of an empty crawl, so that the release-history builder finds
\* the sha of each release in it.
C29_DagHoldsRequired ==
    last.op = "fetch_dag" /\ last.required \subseteq mdb.known =>
        last.required \subseteq DOMAIN last.dag

(***************************************************************************)
(* Specification SpecIssues: one binned calculation of the issue counters  *)
(* over a frame of issues and a series of time intervals, with the one     *)
(* group of all the issues.                                                *)
(***************************************************************************)
MaxDay == 2
MaxIssues == 2

Days == 0..MaxDay

\* prs_began and released of an issue: no pull request, or pull requests
\* that are not released.
PrsShapes == {<<Null, Null>>, <<0, Null>>}

IssueRecords ==
    {[created |-> c, resolved |-> r, prs_began |-> p[1], released |-> p[2]] :
        c \in Days, r \in {Null} \cup Days, p \in PrsShapes}

IssueFrames == UNION {[1..n -> IssueRecords] : n \in 0..MaxIssues}

\* Series of three or four strictly increasing borders: two or three bins.
TimeIntervals ==
    {ts \in UNION {[1..n -> 0..(MaxDay + 1)] : n \in 3..4} :
        \A i \in 1..(Len(ts) - 1) : ts[i] < ts[i + 1]}

InitIssues ==
    /\ mdb \in IssueFrames
    /\ pdb = [r \in Repos |-> NoHistory]
    /\ cache = <<>>
    /\ sdb = <<>>
    /\ last = NoCall

CalculateIssues(time_intervals) ==
    /\ last' = [op |-> "jira", time_intervals |-> time_intervals,
                res |-> jira_binned(mdb, time_intervals, [j \in DOMAIN mdb |-> TRUE])]
    /\ UNCHANGED <<mdb, pdb, cache, sdb>>

NextIssues ==
    /\ last.op = "none"
    /\ \E time_intervals \in TimeIntervals : CalculateIssues(time_intervals)

SpecIssues == InitIssues /\ [][NextIssues]_vars

\* Every issue that is resolved was resolved at or after its creation.
ResolvedAfterCreated ==
    \A j \in DOMAIN mdb : mdb[j].resolved # Null => mdb[j].resolved >= mdb[j].created

\* The number a counter stands for: the sum, or zero when the metric does not exist.
Counted(metric) == IF metric.exists THEN metric.value[1] ELSE 0

\* C30: over consecutive bins and issues that are not resolved before they are
\* created, the number of open issues of a bin is the number of open issues of
\* the bin before, plus the issues raised in the bin, minus those resolved in it.
C30_OpenIsCarriedOver ==
    last.op = "jira" /\ ResolvedAfterCreated =>
        \A i \in 1..(Len(last.res) - 1) :
            Counted(last.res[i + 1].open) =
                Counted(last.res[i].open) + Counted(last.res[i + 1].raised)
                    - Counted(last.res[i + 1].resolved)

C30_Witness ==
    /\ last.op = "jira" /\ ResolvedAfterCreated
    /\ Len(last.res) = 3
    /\ Counted(last.res[1].open) = 1
    /\ Counted(last.res[2].raised) = 1
    /\ Counted(last.res[2].resolved) = 1
    /\ Counted(last.res[2].open) = 1
    /\ Counted(last.res[3].resolved) = 1
    /\ ~last.res[3].open.exists

====
